---- MODULE Spec2Model ----
(***************************************************************************)
(* A model of the tits.fun pool protocol (Move sources of the repository). *)
(*                                                                         *)
(* The repository holds several snapshots of the same protocol.  Three of  *)
(* them are modelled, each as its own deployment (the variable sys says    *)
(* which one a behaviour is about; the other deployments' variables stay   *)
(* at their initial values):                                               *)
(*   "pm"  tits_fun::pool_manager + math_utils  (src/unnamed/part_014,     *)
(*         .../SupraVrf/deposit.move lines 186-409)                        *)
(*   "pp"  deployer_addr::pool_pair with on-chain deviation check          *)
(*         (src/supra/move_workspace/titsFun/sources/pool_pair.move) and   *)
(*         deployer_addr::treasury (src/unnamed/part_009)                  *)
(*   "cl"  deployer_addr::curve_launcher (src/unnamed/part_011) with the   *)
(*         pool_pair it calls (src/unnamed/part_008 lines 319-752)         *)
(* A fourth kind of behaviour, "math", applies the functions of            *)
(* math_utils on their own to arguments drawn from the word range.         *)
(* "pmc" is pool_manager with tits_treasury before any pool exists,        *)
(* "evm" the Solidity TittyPool (src/evm/contracts/TittyPool.sol with      *)
(* MathUtils, src/unnamed/part_007), and "score" feeds the same samples    *)
(* to the score rules of pool_manager and pool_pair.                       *)
(*                                                                         *)
(* Move semantics kept by the model: an entry function that aborts (a      *)
(* failed assert!, an arithmetic overflow, a division by zero, move_to on  *)
(* an address that already holds the resource, move_from/borrow_global on  *)
(* one that does not) leaves the whole storage unchanged.  The variable    *)
(* last records the entry point of the latest call and whether it          *)
(* committed (ok) or aborted.                                              *)
(*                                                                         *)
(* Word sizes: TLC's integers are 32 bits wide, so the u128 and u64 words  *)
(* and the fixed-point scale are modelled by the narrower MAX_U128,        *)
(* MAX_U64 and PRECISION below; every arithmetic step keeps the source's   *)
(* saturation tests and overflow aborts relative to these words.           *)
(***************************************************************************)
EXTENDS Integers, Sequences, FiniteSets, TLC

VARIABLES sys, now, last, pm_pool, pm_pending, pm_registry, pm_treasury, pp_pool,
          pp_treasury, cl_launcher, cl_pools, cl_pending, math_call, evm_pool,
          score_run

vars == <<sys, now, last, pm_pool, pm_pending, pm_registry, pm_treasury, pp_pool,
          pp_treasury, cl_launcher, cl_pools, cl_pending, math_call, evm_pool,
          score_run>>

pm_vars == <<pm_pool, pm_pending, pm_registry, pm_treasury>>
pp_vars == <<pp_pool, pp_treasury>>
cl_vars == <<cl_launcher, cl_pools, cl_pending>>

(***************************************************************************)
(* Words and scale (model-sized stand-ins, see the header).                *)
(***************************************************************************)
\* u128 word of math_utils (2^128 - 1 in the source), here 2^30 - 1
MAX_U128 == 1073741823
\* u64 word (2^64 - 1 = 18446744073709551615 in the source), here 2^15 - 1
MAX_U64 == 32767
\* fixed-point scale (10^8 in the source)
PRECISION == 100

ZERO_ADDR == "0x0"
\* the accounts that sign transactions: the deployer/admin and one more user
ADMIN == "deployer_addr"
USER == "user"
Traders == {ADMIN, USER}

Min(a, b) == IF a < b THEN a ELSE b
Max(a, b) == IF a > b THEN a ELSE b

(***************************************************************************)
(* tits_fun::math_utils                                                    *)
(***************************************************************************)
safe_add(a, b) == IF a > MAX_U128 - b THEN MAX_U128 ELSE a + b

\* subtraction that wraps around the word instead of saturating
safe_sub_wrapping(a, b) == IF a < b THEN a + (MAX_U128 - b) + 1 ELSE a - b

safe_sub(a, b) == IF a < b THEN 0 ELSE a - b

safe_mul(a, b) ==
  IF a = 0 \/ b = 0 THEN 0
  ELSE IF a > MAX_U128 \div b THEN MAX_U128 ELSE a * b

safe_div(a, b) == IF b = 0 THEN 0 ELSE a \div b

\* the unchecked product (a / b) * PRECISION of the fallback branch overflows
\* the word: the Move VM aborts the transaction
safe_div_precision_aborts(a, b) ==
  b # 0 /\ a > MAX_U128 \div PRECISION /\ (a \div b) > MAX_U128 \div PRECISION

safe_div_precision(a, b) ==
  IF b = 0 THEN 0
  ELSE IF a > MAX_U128 \div PRECISION
       THEN (IF safe_div_precision_aborts(a, b) THEN 0 ELSE (a \div b) * PRECISION)
       ELSE (a * PRECISION) \div b

safe_div_fixed_point_aborts(a, b) == safe_div_precision_aborts(a, b)

\* safe_div_fixed_point taking its fallback branch for every dividend
safe_div_fixed_point_fallback(a, b) ==
  IF b = 0 \/ a \div b > MAX_U128 \div PRECISION THEN 0 ELSE (a \div b) * PRECISION

safe_div_fixed_point(a, b) ==
  IF b = 0 THEN 0
  ELSE IF a > MAX_U128 \div PRECISION
       THEN (IF safe_div_fixed_point_aborts(a, b) THEN 0 ELSE (a \div b) * PRECISION)
       ELSE (a * PRECISION) \div b

\* the fallback branch's unchecked product overflows the word
safe_mul_fixed_point_aborts(a, b) ==
  /\ a # 0 /\ b # 0 /\ a > MAX_U128 \div b
  /\ IF a > b THEN (a \div PRECISION) > MAX_U128 \div b
              ELSE (b \div PRECISION) # 0 /\ a > MAX_U128 \div (b \div PRECISION)

safe_mul_fixed_point(a, b) ==
  IF a = 0 \/ b = 0 THEN 0
  ELSE IF a > MAX_U128 \div b
       THEN (IF safe_mul_fixed_point_aborts(a, b) THEN 0
             ELSE IF a > b THEN (a \div PRECISION) * b ELSE a * (b \div PRECISION))
       ELSE (a * b) \div PRECISION

abs_diff(a, b) == IF a > b THEN a - b ELSE b - a

\* the linear search of the small-input branch: the least i >= 1 with
\* i * i > x or i >= 100, minus one
RECURSIVE sqrt_linear(_, _)
sqrt_linear(x, i) == IF i * i <= x /\ i < 100 THEN sqrt_linear(x, i + 1) ELSE i - 1

\* Newton's method, at most 20 iterations
RECURSIVE sqrt_newton(_, _, _, _)
sqrt_newton(x, z, y, iterations) ==
  IF y < z /\ iterations < 20
  THEN sqrt_newton(x, y, ((x \div y) + y) \div 2, iterations + 1)
  ELSE z

\* the unchecked sum x + 1 of the Newton branch leaves the word
sqrt_aborts(x) == x >= 10000 /\ x > MAX_U128 - 1

sqrt(x) ==
  IF x = 0 THEN 0
  ELSE IF x = 1 THEN 1
  ELSE IF x < 10000 THEN sqrt_linear(x, 1)
  ELSE sqrt_newton(x, x, (x + 1) \div 2, 0)

calculate_curve_y_aborts(x, h, l) ==
  ~(x > l \/ l = 0) /\ x # 0 /\
  safe_div_fixed_point_aborts(
     safe_mul(safe_mul(safe_mul(4, h), x), safe_sub(l, x)), safe_mul(l, l))

calculate_curve_y(x, h, l) ==
  IF x > l \/ l = 0 THEN 0
  ELSE IF x = 0 THEN 0
  ELSE LET l_minus_x == safe_sub(l, x)
           four_h == safe_mul(4, h)
           numerator == safe_mul(safe_mul(four_h, x), l_minus_x)
           denominator == safe_mul(l, l)
       IN  safe_div_fixed_point(numerator, denominator)

\* calculate_amm_out without the test for a zero reserve or input
calculate_amm_out_unguarded(x_in, x_reserve, y_reserve) ==
  safe_sub(y_reserve,
           safe_div(safe_mul(x_reserve, y_reserve), safe_add(x_reserve, x_in)))

\* calculate_amm_out dividing k by the reserve before the input is added
calculate_amm_out_stale(x_in, x_reserve, y_reserve) ==
  IF x_reserve = 0 \/ y_reserve = 0 \/ x_in = 0 THEN 0
  ELSE safe_sub(y_reserve, safe_div(safe_mul(x_reserve, y_reserve), x_reserve))

\* calculate_amm_out paying at the spot price y / x, without slippage
calculate_amm_out_linear(x_in, x_reserve, y_reserve) ==
  IF x_reserve = 0 \/ y_reserve = 0 \/ x_in = 0 THEN 0
  ELSE Min(y_reserve, safe_div(safe_mul(y_reserve, x_in), x_reserve))

calculate_amm_out(x_in, x_reserve, y_reserve) ==
  IF x_reserve = 0 \/ y_reserve = 0 \/ x_in = 0 THEN 0
  ELSE LET k == safe_mul(x_reserve, y_reserve)
           new_x_reserve == safe_add(x_reserve, x_in)
       IN  IF new_x_reserve = 0 THEN 0
           ELSE safe_sub(y_reserve, safe_div(k, new_x_reserve))

to_fixed_point(value) ==
  IF value > MAX_U128 \div PRECISION THEN MAX_U128 ELSE value * PRECISION

from_fixed_point(value) == value \div PRECISION

\* A call of a math_utils function on its own: the arguments a, b, c (in the
\* order of the function's parameters), the function applied to them, its
\* result, and whether it aborted instead of returning
MathArgs(a, b, c) ==
  [ fn |-> "none", a |-> a, b |-> b, c |-> c, result |-> 0, aborted |-> FALSE ]

MathReturn(args, fn, result, aborted) ==
  [ args EXCEPT !.fn = fn, !.result = IF aborted THEN 0 ELSE result,
                !.aborted = aborted ]

(***************************************************************************)
(* Bounds of the model.                                                    *)
(***************************************************************************)
\* chain time at which the modelled pool is created
GENESIS == 100
\* accepted trades per pool the model follows
MaxTrades == 2
\* regular-number seed of x_reserve (1_000_000_000 octas in the source)
INITIAL_X == 12
\* initial_token_supply (1_000_000 in the source)
INITIAL_TOKEN_SUPPLY == 6
\* delay_seconds given to create_pool
PmStartDelay == 60

\* l_value given to create_pool: 24h of 5-minute candles
PmLValues == {288}
PoolIds == {1, 2}
RandomValues == {1, 5}
Quantities == {0, 1, MAX_U64}
\* the calls of trade the model makes, as <<trader, pool_id, quantity, side,
\* delay, candle_size>>: every trader, quantity and side with a valid
\* proposal, a buy of every trader with another valid proposal, and one
\* call for each way a proposal or pool id can be wrong
TradeCalls ==
  { <<trader, 1, quantity, side, 12 * 3600, 5>> :
      trader \in Traders, quantity \in Quantities, side \in BOOLEAN }
  \cup { <<trader, 1, 1, TRUE, 0, 10>> : trader \in Traders }
  \cup { <<USER, 2, 1, TRUE, 12 * 3600, 5>>,
         <<USER, 1, 1, TRUE, 12 * 3600 + 1, 5>>,
         <<USER, 1, 1, FALSE, 12 * 3600, 7>> }

(***************************************************************************)
(* tits_fun::pool_manager (src/unnamed/part_014)                           *)
(***************************************************************************)
\* create_pool for pool id 1 on a fresh registry: H_1 = sqrt(H_0) * sqrt(L)
pm_create_pool(l_value, delay_seconds, t) ==
  LET h_0 == to_fixed_point(1)
      sqrt_l_fixed == to_fixed_point(sqrt(l_value))
      sqrt_h_fixed == to_fixed_point(sqrt(from_fixed_point(h_0)))
      start_time == t + delay_seconds
  IN  [ id |-> 1,
        l_value |-> l_value,
        h_value |-> safe_mul_fixed_point(sqrt_h_fixed, sqrt_l_fixed),
        x_reserve |-> to_fixed_point(INITIAL_X),
        y_reserve |-> to_fixed_point(INITIAL_TOKEN_SUPPLY),
        start_time |-> start_time,
        end_time |-> start_time + 24 * 3600,
        is_locked |-> FALSE,
        total_trades |-> 0,
        trader_deviations |-> << >>,
        current_winner |-> ZERO_ADDR,
        winner_proposed_delay |-> 0,
        winner_proposed_candle_size |-> 0 ]

\* validate_candle_size accepting every size from 5 to 15
validate_candle_size_range(candle_size) == candle_size >= 5 /\ candle_size <= 15

validate_candle_size(candle_size) == candle_size \in {5, 10, 15}

\* the index of trader's entry in the vector, 0 when there is none
RECURSIVE find_trader(_, _, _)
find_trader(traders, trader, i) ==
  IF i > Len(traders) THEN 0
  ELSE IF traders[i].trader = trader THEN i
  ELSE find_trader(traders, trader, i + 1)

\* update_trader_deviation weighting the stored score three to one
update_trader_deviation_weighted(traders, trader, new_deviation, t) ==
  LET i == find_trader(traders, trader, 1)
  IN  IF i # 0
      THEN [traders EXCEPT ![i] =
              [ trader |-> trader,
                deviation |-> (3 * traders[i].deviation + new_deviation) \div 4,
                trade_count |-> traders[i].trade_count + 1,
                last_updated |-> t ]]
      ELSE Append(traders, [ trader |-> trader, deviation |-> new_deviation,
                             trade_count |-> 1, last_updated |-> t ])

update_trader_deviation(traders, trader, new_deviation, t) ==
  LET i == find_trader(traders, trader, 1)
  IN  IF i # 0
      THEN [traders EXCEPT ![i] =
              [ trader |-> trader,
                deviation |-> (traders[i].deviation + new_deviation) \div 2,
                trade_count |-> traders[i].trade_count + 1,
                last_updated |-> t ]]
      ELSE Append(traders, [ trader |-> trader, deviation |-> new_deviation,
                             trade_count |-> 1, last_updated |-> t ])

\* the scan of get_current_winner / determine_winner, from entry i on
RECURSIVE winner_scan(_, _, _, _, _)
winner_scan(traders, i, winner, min_deviation, latest_timestamp) ==
  IF i > Len(traders) THEN <<winner, min_deviation>>
  ELSE IF traders[i].deviation < min_deviation
          \/ (traders[i].deviation = min_deviation
              /\ traders[i].last_updated > latest_timestamp)
       THEN winner_scan(traders, i + 1, traders[i].trader,
                        traders[i].deviation, traders[i].last_updated)
       ELSE winner_scan(traders, i + 1, winner, min_deviation, latest_timestamp)

\* the literal 18446744073709551615u128 is the u64 maximum
get_current_winner(traders) ==
  IF Len(traders) = 0 THEN <<ZERO_ADDR, 0>>
  ELSE winner_scan(traders, 1, ZERO_ADDR, MAX_U64, 0)

determine_winner(traders) ==
  IF Len(traders) = 0 THEN <<ZERO_ADDR, 0>>
  ELSE winner_scan(traders, 1, ZERO_ADDR, MAX_U64, 0)

\* trade_guard without the assert on is_locked
trade_guard_unlocked(pool, t, pool_id, delay, candle_size) ==
  /\ pool.id = pool_id
  /\ validate_candle_size(candle_size)
  /\ t >= pool.start_time /\ t <= pool.end_time
  /\ delay <= 12 * 3600

\* the asserts of trade that precede every computation
trade_guard(pool, t, pool_id, delay, candle_size) ==
  /\ pool.id = pool_id
  /\ ~pool.is_locked
  /\ validate_candle_size(candle_size)
  /\ t >= pool.start_time /\ t <= pool.end_time
  /\ delay <= 12 * 3600

trade_reserves_ok(pool) == pool.x_reserve > 0 /\ pool.y_reserve > 0

\* seconds per candle; 0 when l_value > 1440
trade_candle_duration(pool) == ((24 * 60) \div pool.l_value) * 60

trade_current_candle(pool, t) ==
  LET time_elapsed == t - pool.start_time
      candle_duration == trade_candle_duration(pool)
  IN  IF time_elapsed < candle_duration THEN 0
      ELSE time_elapsed \div candle_duration

trade_curve_expected(pool, t) ==
  calculate_curve_y(trade_current_candle(pool, t) + 1,
                    from_fixed_point(pool.h_value), pool.l_value)

trade_amm_output(pool, quantity, side) ==
  LET quantity_fixed == to_fixed_point(quantity)
  IN  IF side THEN calculate_amm_out(quantity_fixed, pool.x_reserve, pool.y_reserve)
      ELSE calculate_amm_out(quantity_fixed, pool.y_reserve, pool.x_reserve)

trade_deviation(amm_output, curve_expected) ==
  IF curve_expected > 0
  THEN safe_div_precision(safe_mul(abs_diff(amm_output, curve_expected), 10000),
                          curve_expected)
  ELSE 0

\* the aborts after the guard: division by a zero l_value or candle duration,
\* the overflowing fallback products, the cast of the output to u64
trade_arith_aborts(pool, t, quantity, side) ==
  \/ pool.l_value = 0
  \/ (t - pool.start_time >= trade_candle_duration(pool)
      /\ trade_candle_duration(pool) = 0)
  \/ calculate_curve_y_aborts(trade_current_candle(pool, t) + 1,
                              from_fixed_point(pool.h_value), pool.l_value)
  \/ LET ce == trade_curve_expected(pool, t)
         out == trade_amm_output(pool, quantity, side)
     IN  \/ (ce > 0 /\ safe_div_precision_aborts(safe_mul(abs_diff(out, ce), 10000), ce))
         \/ from_fixed_point(out) > MAX_U64

trade_accepts(pool, t, pool_id, quantity, side, delay, candle_size) ==
  /\ trade_guard(pool, t, pool_id, delay, candle_size)
  /\ trade_reserves_ok(pool)
  /\ ~trade_arith_aborts(pool, t, quantity, side)

\* the reserves after the AMM update of an accepted trade
trade_new_x(pool, quantity, side) ==
  IF side THEN safe_add(pool.x_reserve, to_fixed_point(quantity))
  ELSE safe_sub(pool.x_reserve, trade_amm_output(pool, quantity, side))

trade_new_y(pool, quantity, side) ==
  IF side THEN safe_sub(pool.y_reserve, trade_amm_output(pool, quantity, side))
  ELSE safe_add(pool.y_reserve, to_fixed_point(quantity))

\* the pool an accepted trade leaves.  The SupraCoin / pool-token movements
\* of execute_buy_trade and execute_sell_trade touch no field of Pool.
trade_effect(pool, t, trader, quantity, side, delay, candle_size) ==
  LET amm_output == trade_amm_output(pool, quantity, side)
      deviation == trade_deviation(amm_output, trade_curve_expected(pool, t))
      deviation_bp == from_fixed_point(deviation)
      traders == update_trader_deviation(pool.trader_deviations, trader, deviation_bp, t)
  IN  [pool EXCEPT
         !.x_reserve = trade_new_x(pool, quantity, side),
         !.y_reserve = trade_new_y(pool, quantity, side),
         !.trader_deviations = traders,
         !.current_winner = get_current_winner(traders)[1],
         !.winner_proposed_delay = delay,
         !.winner_proposed_candle_size = candle_size,
         !.total_trades = pool.total_trades + 1]

Call(op, ok) == [op |-> op, ok |-> ok]

\* the pool after a call of trade: an abort leaves it as it was
trade_post(pool, t, trader, pool_id, quantity, side, delay, candle_size) ==
  IF trade_accepts(pool, t, pool_id, quantity, side, delay, candle_size)
  THEN trade_effect(pool, t, trader, quantity, side, delay, candle_size)
  ELSE pool

trade(trader, pool_id, quantity, side, delay, candle_size) ==
  /\ sys = "pm"
  /\ trade_accepts(pm_pool, now, pool_id, quantity, side, delay, candle_size)
       => pm_pool.total_trades < MaxTrades
  /\ pm_pool' = trade_post(pm_pool, now, trader, pool_id, quantity, side, delay, candle_size)
  /\ last' = Call("trade",
                  trade_accepts(pm_pool, now, pool_id, quantity, side, delay, candle_size))
  /\ UNCHANGED <<sys, evm_pool, score_run, math_call, now, pm_pending, pm_registry, pm_treasury, pp_vars, cl_vars>>

\* lock_pool borrows the Pool under the signer's own address and publishes a
\* PendingVRF there: it aborts for any signer but the admin, and when a
\* PendingVRF is already published
lock_pool_accepts(admin, pool_id) ==
  admin = ADMIN /\ pm_pool.id = pool_id /\ ~pm_pending

lock_pool(admin, pool_id) ==
  /\ sys = "pm"
  /\ IF lock_pool_accepts(admin, pool_id)
     THEN /\ pm_pool' = [pm_pool EXCEPT !.is_locked = TRUE]
          /\ pm_pending' = TRUE
          /\ last' = Call("lock_pool", TRUE)
     ELSE /\ UNCHANGED pm_vars
          /\ last' = Call("lock_pool", FALSE)
  /\ UNCHANGED <<sys, evm_pool, score_run, math_call, now, pm_registry, pm_treasury, pp_vars, cl_vars>>

\* init_module followed by the create_pool that published `pool`
pm_registry_init(pool) ==
  [ pools |-> << pool.id >>,
    current_pool_id |-> pool.id,
    previous_h_values |-> << to_fixed_point(1), pool.h_value >>,
    queued_pool_start_time |-> 0,
    queued_pool_delay |-> 0,
    queued_pool_candle_size |-> 0,
    queued_pool_winner |-> ZERO_ADDR ]

queue_next_pool(registry, winner, delay, candle_size, current_pool_start) ==
  [registry EXCEPT !.queued_pool_start_time = current_pool_start + 24 * 3600,
                   !.queued_pool_delay = delay,
                   !.queued_pool_candle_size = candle_size,
                   !.queued_pool_winner = winner]

pm_complete_pool(registry, pool_id) ==
  [registry EXCEPT !.pools = SelectSeq(registry.pools, LAMBDA id : id # pool_id)]

\* the VRF callback: move_from<PendingVRF>(caller_address) and the registry
\* borrowed under the caller both need the admin's account
handle_random_pool_params_accepts(caller, caller_address) ==
  caller = ADMIN /\ caller_address = ADMIN /\ pm_pending

handle_random_pool_params(caller, caller_address, random_value) ==
  /\ sys = "pm"
  /\ IF handle_random_pool_params_accepts(caller, caller_address)
     THEN LET candle_idx == random_value % 3
              random_candle_size == IF candle_idx = 0 THEN 5
                                    ELSE IF candle_idx = 1 THEN 10 ELSE 15
          IN  /\ pm_pending' = FALSE
              /\ pm_registry' =
                   pm_complete_pool(
                     queue_next_pool(pm_registry, ZERO_ADDR, 0, random_candle_size,
                                     pm_pool.start_time),
                     pm_pool.id)
              /\ last' = Call("handle_random_pool_params", TRUE)
     ELSE /\ UNCHANGED <<pm_pending, pm_registry>>
          /\ last' = Call("handle_random_pool_params", FALSE)
  /\ UNCHANGED <<sys, evm_pool, score_run, math_call, now, pm_pool, pm_treasury, pp_vars, cl_vars>>

(***************************************************************************)
(* tits_fun::tits_treasury (deposit.move) and pool_manager::create_pool    *)
(* (src/unnamed/part_014), followed from the publication of the modules.   *)
(* The Treasury's own fields are state; the CoinStores of the accounts,    *)
(* kept by the framework, are assumed to hold what a call withdraws.       *)
(***************************************************************************)
\* the largest treasury balance the model follows
PmMaxBalance == 30
\* the amounts given to fund_treasury and to withdraw_fees
FundAmounts == {1, 5, INITIAL_X}
WithdrawAmounts == {5, PmMaxBalance + 1}
\* the calls of create_pool the model makes, as <<admin, l_value, delay_seconds>>
CreatePoolCalls == { <<admin, l, PmStartDelay>> : admin \in Traders, l \in {96, 288} }

\* the admin's account before any create_pool: no Pool resource
pm_no_pool == [ id |-> 0 ]
pm_has_pool(pool) == pool.id # 0

\* tits_treasury::init_module
tits_treasury_init == [ balance |-> 0, total_fees_collected |-> 0, reserve_coins |-> 0 ]

\* pool_manager::init_module
pm_registry_init_module ==
  [ pools |-> << >>,
    current_pool_id |-> 0,
    previous_h_values |-> << >>,
    queued_pool_start_time |-> 0,
    queued_pool_delay |-> 0,
    queued_pool_candle_size |-> 0,
    queued_pool_winner |-> ZERO_ADDR ]

\* borrow_global_mut<Treasury>(admin_addr) and the u64 sum
fund_treasury_accepts(treasury, admin_addr, amount) ==
  admin_addr = ADMIN /\ treasury.balance + amount <= MAX_U64

fund_treasury(funder, admin_addr, amount) ==
  /\ sys \in {"pmc", "pm"}
  /\ IF /\ fund_treasury_accepts(pm_treasury, admin_addr, amount)
        /\ pm_treasury.balance + amount <= PmMaxBalance
     THEN /\ pm_treasury' = [pm_treasury EXCEPT !.balance = @ + amount]
          /\ last' = Call("fund_treasury", TRUE)
     ELSE /\ UNCHANGED pm_treasury
          /\ last' = Call("fund_treasury", FALSE)
  /\ UNCHANGED <<sys, evm_pool, score_run, math_call, now, pm_pool, pm_pending, pm_registry, pp_vars, cl_vars>>

withdraw_fees_accepts(treasury, admin, amount) ==
  admin = ADMIN /\ treasury.balance >= amount

withdraw_fees(admin, amount) ==
  /\ sys = "pmc"
  /\ IF withdraw_fees_accepts(pm_treasury, admin, amount)
     THEN /\ pm_treasury' = [pm_treasury EXCEPT !.balance = @ - amount]
          /\ last' = Call("withdraw_fees", TRUE)
     ELSE /\ UNCHANGED pm_treasury
          /\ last' = Call("withdraw_fees", FALSE)
  /\ UNCHANGED <<sys, evm_pool, score_run, math_call, now, pm_pool, pm_pending, pm_registry, pp_vars, cl_vars>>

\* coin::extract on reserve_coins needs the coins to be there, the u64
\* subtraction needs the balance
initialize_pool_funding_accepts(treasury, funding_amount) ==
  treasury.reserve_coins >= funding_amount /\ treasury.balance >= funding_amount

initialize_pool_funding(treasury, funding_amount) ==
  [treasury EXCEPT !.reserve_coins = @ - funding_amount,
                   !.balance = @ - funding_amount]

\* the height create_pool starts from: H_0 for pool 1, and for a later pool
\* the entry at (0-based) index pool_id - 2 of previous_h_values
create_pool_prev_h_value(registry) ==
  LET pool_id == registry.current_pool_id + 1
  IN  IF pool_id = 1 THEN to_fixed_point(1)
      ELSE registry.previous_h_values[(pool_id - 2) + 1]

create_pool_h_value(registry, l_value) ==
  LET sqrt_l_fixed == to_fixed_point(sqrt(l_value))
      sqrt_h_fixed == to_fixed_point(sqrt(from_fixed_point(create_pool_prev_h_value(registry))))
  IN  safe_mul_fixed_point(sqrt_h_fixed, sqrt_l_fixed)

create_pool_registry(registry, l_value) ==
  LET pool_id == registry.current_pool_id + 1
      history == IF pool_id = 1
                 THEN Append(registry.previous_h_values, to_fixed_point(1))
                 ELSE registry.previous_h_values
  IN  [registry EXCEPT !.current_pool_id = pool_id,
                       !.previous_h_values = Append(history, create_pool_h_value(registry, l_value)),
                       !.pools = Append(@, pool_id)]

create_pool_pool(registry, l_value, delay_seconds, t) ==
  [ id |-> registry.current_pool_id + 1,
    l_value |-> l_value,
    h_value |-> create_pool_h_value(registry, l_value),
    x_reserve |-> to_fixed_point(INITIAL_X),
    y_reserve |-> to_fixed_point(INITIAL_TOKEN_SUPPLY),
    start_time |-> t + delay_seconds,
    end_time |-> t + delay_seconds + 24 * 3600,
    is_locked |-> FALSE,
    total_trades |-> 0,
    trader_deviations |-> << >>,
    current_winner |-> ZERO_ADDR,
    winner_proposed_delay |-> 0,
    winner_proposed_candle_size |-> 0 ]

\* create_pool without the treasury conditions
create_pool_accepts_unfunded(registry, treasury, pool, admin, l_value) ==
  /\ admin = ADMIN
  /\ registry.current_pool_id + 1 <= MAX_U64
  /\ ~pm_has_pool(pool)

\* every way create_pool can abort: no registry under the signer, the id
\* sum, the borrow from previous_h_values, the height arithmetic, the
\* token and the Pool already published under the admin (coin::initialize
\* and move_to), the treasury assert, and initialize_pool_funding
create_pool_accepts(registry, treasury, pool, admin, l_value) ==
  /\ admin = ADMIN
  /\ registry.current_pool_id + 1 <= MAX_U64
  /\ registry.current_pool_id + 1 # 1 =>
       registry.current_pool_id <= Len(registry.previous_h_values)
  /\ ~sqrt_aborts(l_value)
  /\ ~sqrt_aborts(from_fixed_point(create_pool_prev_h_value(registry)))
  /\ ~safe_mul_fixed_point_aborts(
        to_fixed_point(sqrt(from_fixed_point(create_pool_prev_h_value(registry)))),
        to_fixed_point(sqrt(l_value)))
  /\ ~pm_has_pool(pool)
  /\ treasury.balance >= INITIAL_X
  /\ initialize_pool_funding_accepts(treasury, INITIAL_X)

create_pool(admin, l_value, delay_seconds) ==
  /\ sys = "pmc"
  /\ IF create_pool_accepts(pm_registry, pm_treasury, pm_pool, admin, l_value)
     THEN /\ pm_registry' = create_pool_registry(pm_registry, l_value)
          /\ pm_pool' = create_pool_pool(pm_registry, l_value, delay_seconds, now)
          /\ pm_treasury' = initialize_pool_funding(pm_treasury, INITIAL_X)
          /\ last' = Call("create_pool", TRUE)
     ELSE /\ UNCHANGED <<pm_registry, pm_pool, pm_treasury>>
          /\ last' = Call("create_pool", FALSE)
  /\ UNCHANGED <<sys, evm_pool, score_run, math_call, now, pm_pending, pp_vars, cl_vars>>

(***************************************************************************)
(* tits_fun::tits_deviation (sources/automations/tits_deviation.move): the *)
(* automation run after every trade or block.                              *)
(***************************************************************************)
clear_queue(registry) ==
  [registry EXCEPT !.queued_pool_start_time = 0,
                   !.queued_pool_delay = 0,
                   !.queued_pool_candle_size = 0,
                   !.queued_pool_winner = ZERO_ADDR]

get_current_active_pool_id(registry) ==
  IF registry.pools = << >> THEN 0 ELSE registry.pools[Len(registry.pools)]

RECURSIVE max_deviation_scan(_, _, _)
max_deviation_scan(traders, i, max_deviation) ==
  IF i > Len(traders) THEN max_deviation
  ELSE max_deviation_scan(traders, i + 1, Max(max_deviation, traders[i].deviation))

get_max_trader_deviation(pool) == max_deviation_scan(pool.trader_deviations, 1, 0)

\* the branch with no active pool launches the queued pool
check_pool_status_launches(registry, t) ==
  /\ registry.pools = << >>
  /\ registry.queued_pool_start_time > 0
  /\ t >= registry.queued_pool_start_time

\* the branch with an active, unlocked pool that has run its 24h
check_pool_status_expires(registry, pool, t) ==
  /\ registry.pools # << >>
  /\ ~pool.is_locked
  /\ t >= pool.start_time + 24 * 3600

\* the branch with an active, unlocked, running pool above 690 basis points
check_pool_status_locks(registry, pool, t) ==
  /\ registry.pools # << >>
  /\ ~pool.is_locked
  /\ t < pool.start_time + 24 * 3600
  /\ get_max_trader_deviation(pool) > 690

\* every way check_pool_status can abort: no registry under the signer; in
\* the launch branch the division by queued_candle_size and create_pool; in
\* the other branches the pool-id assert of get_pool_info and lock_pool
check_pool_status_accepts(registry, treasury, pool, pending, t, admin) ==
  /\ admin = ADMIN
  /\ check_pool_status_launches(registry, t) =>
       /\ registry.queued_pool_candle_size # 0
       /\ create_pool_accepts(registry, treasury, pool, admin,
                              (24 * 60) \div registry.queued_pool_candle_size)
  /\ registry.pools # << >> =>
       /\ pm_has_pool(pool)
       /\ pool.id = get_current_active_pool_id(registry)
  /\ check_pool_status_locks(registry, pool, t) => ~pending

check_pool_status(admin) ==
  /\ sys = "pm"
  /\ IF ~check_pool_status_accepts(pm_registry, pm_treasury, pm_pool, pm_pending, now, admin)
     THEN /\ UNCHANGED <<pm_pool, pm_pending, pm_registry, pm_treasury>>
          /\ last' = Call("check_pool_status", FALSE)
     ELSE /\ last' = Call("check_pool_status", TRUE)
          /\ IF check_pool_status_launches(pm_registry, now)
             THEN LET l_value == (24 * 60) \div pm_registry.queued_pool_candle_size
                  IN  /\ pm_registry' = clear_queue(create_pool_registry(pm_registry, l_value))
                      /\ pm_pool' = create_pool_pool(pm_registry, l_value,
                                                     pm_registry.queued_pool_delay, now)
                      /\ pm_treasury' = initialize_pool_funding(pm_treasury, INITIAL_X)
                      /\ UNCHANGED pm_pending
             ELSE IF check_pool_status_expires(pm_registry, pm_pool, now)
             THEN /\ pm_registry' =
                       pm_complete_pool(
                         queue_next_pool(pm_registry,
                                         determine_winner(pm_pool.trader_deviations)[1],
                                         pm_pool.winner_proposed_delay,
                                         pm_pool.winner_proposed_candle_size,
                                         pm_pool.start_time),
                         get_current_active_pool_id(pm_registry))
                  /\ UNCHANGED <<pm_pool, pm_pending, pm_treasury>>
             ELSE IF check_pool_status_locks(pm_registry, pm_pool, now)
             THEN /\ pm_pool' = [pm_pool EXCEPT !.is_locked = TRUE]
                  /\ pm_pending' = TRUE
                  /\ UNCHANGED <<pm_registry, pm_treasury>>
             ELSE UNCHANGED <<pm_pool, pm_pending, pm_registry, pm_treasury>>
  /\ UNCHANGED <<sys, evm_pool, score_run, math_call, now, pp_vars, cl_vars>>

(***************************************************************************)
(* deployer_addr::pool_pair (sources/pool_pair.move) and                   *)
(* deployer_addr::treasury (src/unnamed/part_009).  All numbers are u64:   *)
(* an unchecked sum or product above MAX_U64 aborts the call.              *)
(***************************************************************************)
POOL_DURATION_SECONDS == 86400
\* INITIAL_LIQUIDITY, the virtual token reserve (1000000_00000000 in the source)
INITIAL_LIQUIDITY == 8
\* committed trades per pool the model follows
PpMaxTrades == 3
\* start_delay of the modelled pool
PpStartDelay == 60
\* CurveParams of the modelled pool
PpHeight == 3
PpLength == 4
PpTicker == 5
PpThreshold == 50

PpAmounts == {0, 2, 6, MAX_U64}

pp_create_pool(creator, pool_id, params, start_time) ==
  [ id |-> pool_id,
    params |-> params,
    start_time |-> start_time,
    end_time |-> start_time + POOL_DURATION_SECONDS,
    is_active |-> FALSE,
    is_locked |-> FALSE,
    creator |-> creator,
    total_supply |-> 1000000,
    reserve_coin |-> 0,
    reserve_token |-> INITIAL_LIQUIDITY,
    trades |-> << >>,
    trader_scores |-> << >>,
    winner |-> ZERO_ADDR,
    total_volume |-> 0,
    last_deviation_check |-> 0 ]

\* treasury::init_module
pp_treasury_init ==
  [ total_coins_collected |-> 0,
    total_tokens_collected |-> 0,
    reserve_tokens |-> 0,
    collection_history |-> << >>,
    locked_pool_count |-> 0 ]

receive_all_locked_funds_aborts(treasury, coins_amount, tokens) ==
  \/ treasury.total_coins_collected + coins_amount > MAX_U64
  \/ treasury.total_tokens_collected + tokens > MAX_U64
  \/ treasury.locked_pool_count + 1 > MAX_U64

receive_all_locked_funds(treasury, coins_amount, tokens, pool_id, t) ==
  [treasury EXCEPT
     !.total_coins_collected = treasury.total_coins_collected + coins_amount,
     !.total_tokens_collected = treasury.total_tokens_collected + tokens,
     !.locked_pool_count = treasury.locked_pool_count + 1,
     !.collection_history =
        Append(treasury.collection_history,
               [ pool_id |-> pool_id, coins_amount |-> coins_amount,
                 tokens_amount |-> tokens, timestamp |-> t ])]

\* division by a zero ticker_duration, or length - 1 on a zero length
get_current_candle_aborts(pool, t) ==
  \/ pool.params.ticker_duration = 0
  \/ (((t - pool.start_time) \div 60) \div pool.params.ticker_duration
        >= pool.params.length /\ pool.params.length = 0)

get_current_candle(pool, t) ==
  LET elapsed_seconds == t - pool.start_time
      elapsed_minutes == elapsed_seconds \div 60
      current_candle == elapsed_minutes \div pool.params.ticker_duration
  IN  IF current_candle >= pool.params.length THEN pool.params.length - 1
      ELSE current_candle

\* a product of u64 factors that stays in the word
MulFits(a, b) == a = 0 \/ b = 0 \/ a <= MAX_U64 \div b

calculate_expected_price_for_candle_aborts(pool, candle) ==
  LET h == pool.params.height
      l == pool.params.length
  IN  /\ candle < l
      /\ \/ ~MulFits(4, h)
         \/ ~MulFits(4 * h, candle)
         \/ ~MulFits(4 * h * candle, l - candle)
         \/ ~MulFits(l, l)

calculate_expected_price_for_candle(pool, candle) ==
  LET h == pool.params.height
      l == pool.params.length
  IN  IF candle >= l THEN 0
      ELSE (4 * h * candle * (l - candle)) \div (l * l)

calculate_buy_amount_aborts(pool, coin_amount) ==
  /\ pool.reserve_coin # 0 /\ pool.reserve_token # 0
  /\ \/ ~MulFits(pool.reserve_coin, pool.reserve_token)
     \/ pool.reserve_coin + coin_amount > MAX_U64

calculate_buy_amount(pool, coin_amount) ==
  LET coin_reserve == pool.reserve_coin
      token_reserve == pool.reserve_token
  IN  IF coin_reserve = 0 \/ token_reserve = 0 THEN coin_amount
      ELSE LET k == coin_reserve * token_reserve
               new_coin_reserve == coin_reserve + coin_amount
               new_token_reserve == k \div new_coin_reserve
           IN  IF token_reserve > new_token_reserve
               THEN token_reserve - new_token_reserve ELSE 0

calculate_sell_amount_aborts(pool, token_amount) ==
  /\ pool.reserve_coin # 0 /\ pool.reserve_token # 0
  /\ \/ ~MulFits(pool.reserve_coin, pool.reserve_token)
     \/ pool.reserve_token + token_amount > MAX_U64

calculate_sell_amount(pool, token_amount) ==
  LET coin_reserve == pool.reserve_coin
      token_reserve == pool.reserve_token
  IN  IF coin_reserve = 0 \/ token_reserve = 0 THEN 0
      ELSE LET k == coin_reserve * token_reserve
               new_token_reserve == token_reserve + token_amount
               new_coin_reserve == k \div new_token_reserve
           IN  IF coin_reserve > new_coin_reserve
               THEN coin_reserve - new_coin_reserve ELSE 0

calculate_current_price(pool) ==
  IF pool.reserve_token = 0 THEN 0 ELSE pool.reserve_coin \div pool.reserve_token

calculate_deviation_aborts(expected, actual) ==
  expected # 0 /\ ~MulFits(abs_diff(actual, expected), 100)

calculate_deviation(expected, actual) ==
  IF expected = 0 THEN 100
  ELSE IF actual > expected THEN ((actual - expected) * 100) \div expected
  ELSE ((expected - actual) * 100) \div expected

update_trader_score_aborts(scores, trader, deviation, volume) ==
  LET i == find_trader(scores, trader, 1)
  IN  /\ i # 0
      /\ \/ scores[i].total_deviation + deviation > MAX_U64
         \/ scores[i].trade_count + 1 > MAX_U64
         \/ scores[i].volume + volume > MAX_U64

\* update_trader_score pushing a new entry at every trade
update_trader_score_append(scores, trader, deviation, volume) ==
  Append(scores, [ trader |-> trader, total_deviation |-> deviation,
                   trade_count |-> 1, volume |-> volume, score |-> deviation ])

update_trader_score(scores, trader, deviation, volume) ==
  LET i == find_trader(scores, trader, 1)
  IN  IF i # 0
      THEN [scores EXCEPT ![i] =
              [ trader |-> trader,
                total_deviation |-> scores[i].total_deviation + deviation,
                trade_count |-> scores[i].trade_count + 1,
                volume |-> scores[i].volume + volume,
                score |-> (scores[i].total_deviation + deviation)
                            \div (scores[i].trade_count + 1) ]]
      ELSE Append(scores, [ trader |-> trader, total_deviation |-> deviation,
                            trade_count |-> 1, volume |-> volume,
                            score |-> deviation ])

RECURSIVE best_trader_scan(_, _, _, _)
best_trader_scan(scores, i, best_trader, best_score) ==
  IF i > Len(scores) THEN best_trader
  ELSE IF scores[i].score < best_score /\ scores[i].trade_count >= 3
       THEN best_trader_scan(scores, i + 1, scores[i].trader, scores[i].score)
       ELSE best_trader_scan(scores, i + 1, best_trader, best_score)

find_best_trader(scores) ==
  IF Len(scores) = 0 THEN ZERO_ADDR
  ELSE best_trader_scan(scores, 1, ZERO_ADDR, MAX_U64)

\* lock_pool_and_transfer_all leaving the token reserve in the pool
lock_pool_and_transfer_all_coins(pool) ==
  [pool EXCEPT !.is_locked = TRUE, !.is_active = FALSE, !.reserve_coin = 0]

lock_pool_and_transfer_all(pool) ==
  [pool EXCEPT !.is_locked = TRUE, !.is_active = FALSE,
               !.reserve_coin = 0, !.reserve_token = 0]

\* the asserts of buy_tokens / sell_tokens before the AMM computation; the
\* pool is borrowed under the signer's own address
pp_trade_guard(pool, t, account, pool_id) ==
  /\ account = pool.creator
  /\ pool.id = pool_id
  /\ ~pool.is_locked
  /\ t >= pool.start_time
  /\ t <= pool.end_time

\* STEP 1 of buy_tokens / sell_tokens: the pool after the AMM trade
pp_after_amm(pool, is_buy, amount) ==
  IF is_buy
  THEN [pool EXCEPT !.reserve_coin = pool.reserve_coin + amount,
                    !.reserve_token = pool.reserve_token - calculate_buy_amount(pool, amount),
                    !.total_volume = pool.total_volume + amount]
  ELSE [pool EXCEPT !.reserve_token = pool.reserve_token + amount,
                    !.reserve_coin = pool.reserve_coin - calculate_sell_amount(pool, amount),
                    !.total_volume = pool.total_volume + calculate_sell_amount(pool, amount)]

\* the amount update_trader_score records as volume
pp_volume(pool, is_buy, amount) ==
  IF is_buy THEN amount ELSE calculate_sell_amount(pool, amount)

\* STEP 2: the deviation of the price after the trade from the curve
pp_deviation(pool, t, is_buy, amount) ==
  LET traded == pp_after_amm(pool, is_buy, amount)
  IN  calculate_deviation(
        calculate_expected_price_for_candle(traded, get_current_candle(traded, t)),
        calculate_current_price(traded))

\* whether this trade is the one that locks the pool
pp_locks(pool, t, is_buy, amount) ==
  /\ get_current_candle(pool, t) > pool.last_deviation_check
  /\ pp_deviation(pool, t, is_buy, amount) > pool.params.threshold_percent

pp_trade_accepts(pool, treasury, t, account, pool_id, is_buy, amount) ==
  /\ pp_trade_guard(pool, t, account, pool_id)
  /\ IF is_buy
     THEN /\ ~calculate_buy_amount_aborts(pool, amount)
          /\ calculate_buy_amount(pool, amount) > 0
          /\ pool.reserve_token >= calculate_buy_amount(pool, amount)
          /\ pool.reserve_coin + amount <= MAX_U64
          /\ pool.total_volume + amount <= MAX_U64
     ELSE /\ ~calculate_sell_amount_aborts(pool, amount)
          /\ calculate_sell_amount(pool, amount) > 0
          /\ pool.reserve_coin >= calculate_sell_amount(pool, amount)
          /\ pool.total_volume + calculate_sell_amount(pool, amount) <= MAX_U64
  /\ ~get_current_candle_aborts(pool, t)
  /\ ~calculate_expected_price_for_candle_aborts(pool, get_current_candle(pool, t))
  /\ LET traded == pp_after_amm(pool, is_buy, amount)
     IN  /\ ~calculate_deviation_aborts(
                calculate_expected_price_for_candle(traded, get_current_candle(traded, t)),
                calculate_current_price(traded))
         /\ ~update_trader_score_aborts(pool.trader_scores, account,
                pp_deviation(pool, t, is_buy, amount), pp_volume(pool, is_buy, amount))
         /\ pp_locks(pool, t, is_buy, amount)
              => ~receive_all_locked_funds_aborts(treasury, traded.reserve_coin,
                                                  traded.reserve_token)

\* buy_tokens / sell_tokens comparing the deviation with the threshold at
\* every trade
pp_trade_effect_every_trade(pool, t, account, is_buy, amount) ==
  LET traded == pp_after_amm(pool, is_buy, amount)
      deviation == pp_deviation(pool, t, is_buy, amount)
      checked == [traded EXCEPT
                    !.trader_scores =
                       update_trader_score(pool.trader_scores, account, deviation,
                                           pp_volume(pool, is_buy, amount)),
                    !.last_deviation_check = get_current_candle(traded, t)]
  IN  IF deviation > pool.params.threshold_percent
      THEN lock_pool_and_transfer_all(checked)
      ELSE checked

\* the pool a committed buy_tokens / sell_tokens leaves
pp_trade_effect(pool, t, account, is_buy, amount) ==
  LET traded == pp_after_amm(pool, is_buy, amount)
      current_candle == get_current_candle(traded, t)
      deviation == pp_deviation(pool, t, is_buy, amount)
      scored == [traded EXCEPT !.trader_scores =
                   update_trader_score(pool.trader_scores, account, deviation,
                                       pp_volume(pool, is_buy, amount))]
  IN  IF current_candle > pool.last_deviation_check
      THEN LET checked == [scored EXCEPT !.last_deviation_check = current_candle]
           IN  IF deviation > pool.params.threshold_percent
               THEN lock_pool_and_transfer_all(checked)
               ELSE checked
      ELSE scored

pp_trade_post(pool, treasury, t, account, pool_id, is_buy, amount) ==
  IF pp_trade_accepts(pool, treasury, t, account, pool_id, is_buy, amount)
  THEN pp_trade_effect(pool, t, account, is_buy, amount)
  ELSE pool

\* the treasury after a call of buy_tokens / sell_tokens
pp_trade_treasury(pool, treasury, t, account, pool_id, is_buy, amount) ==
  IF /\ pp_trade_accepts(pool, treasury, t, account, pool_id, is_buy, amount)
     /\ pp_locks(pool, t, is_buy, amount)
  THEN LET traded == pp_after_amm(pool, is_buy, amount)
       IN  receive_all_locked_funds(treasury, traded.reserve_coin, traded.reserve_token,
                                    pool.id, t)
  ELSE treasury

RECURSIVE pp_trade_count(_, _)
pp_trade_count(scores, i) ==
  IF i > Len(scores) THEN 0 ELSE scores[i].trade_count + pp_trade_count(scores, i + 1)

buy_tokens(account, pool_id, coin_amount) ==
  /\ sys = "pp"
  /\ pp_trade_accepts(pp_pool, pp_treasury, now, account, pool_id, TRUE, coin_amount)
       => pp_trade_count(pp_pool.trader_scores, 1) < PpMaxTrades
  /\ pp_pool' = pp_trade_post(pp_pool, pp_treasury, now, account, pool_id, TRUE, coin_amount)
  /\ pp_treasury' = pp_trade_treasury(pp_pool, pp_treasury, now, account, pool_id,
                                      TRUE, coin_amount)
  /\ last' = Call("buy_tokens", pp_trade_accepts(pp_pool, pp_treasury, now, account,
                                                 pool_id, TRUE, coin_amount))
  /\ UNCHANGED <<sys, evm_pool, score_run, math_call, now, pm_vars, cl_vars>>

sell_tokens(account, pool_id, token_amount) ==
  /\ sys = "pp"
  /\ pp_trade_accepts(pp_pool, pp_treasury, now, account, pool_id, FALSE, token_amount)
       => pp_trade_count(pp_pool.trader_scores, 1) < PpMaxTrades
  /\ pp_pool' = pp_trade_post(pp_pool, pp_treasury, now, account, pool_id, FALSE,
                              token_amount)
  /\ pp_treasury' = pp_trade_treasury(pp_pool, pp_treasury, now, account, pool_id,
                                      FALSE, token_amount)
  /\ last' = Call("sell_tokens", pp_trade_accepts(pp_pool, pp_treasury, now, account,
                                                  pool_id, FALSE, token_amount))
  /\ UNCHANGED <<sys, evm_pool, score_run, math_call, now, pm_vars, cl_vars>>

activate_pool_accepts(pool, t, account, pool_id) ==
  account = pool.creator /\ pool.id = pool_id /\ t >= pool.start_time

activate_pool_post(pool, t, account, pool_id) ==
  IF activate_pool_accepts(pool, t, account, pool_id)
  THEN [pool EXCEPT !.is_active = TRUE] ELSE pool

activate_pool(account, pool_id) ==
  /\ sys = "pp"
  /\ pp_pool' = activate_pool_post(pp_pool, now, account, pool_id)
  /\ last' = Call("activate_pool", activate_pool_accepts(pp_pool, now, account, pool_id))
  /\ UNCHANGED <<sys, evm_pool, score_run, math_call, now, pp_treasury, pm_vars, cl_vars>>

finalize_pool_accepts(pool, account, pool_id) ==
  account = pool.creator /\ pool.id = pool_id

finalize_pool_post(pool, account, pool_id) ==
  IF finalize_pool_accepts(pool, account, pool_id)
  THEN [pool EXCEPT
          !.is_active = FALSE,
          !.winner = IF ~pool.is_locked /\ Len(pool.trader_scores) > 0
                     THEN find_best_trader(pool.trader_scores) ELSE pool.winner]
  ELSE pool

finalize_pool(account, pool_id) ==
  /\ sys = "pp"
  /\ pp_pool' = finalize_pool_post(pp_pool, account, pool_id)
  /\ last' = Call("finalize_pool", finalize_pool_accepts(pp_pool, account, pool_id))
  /\ UNCHANGED <<sys, evm_pool, score_run, math_call, now, pp_treasury, pm_vars, cl_vars>>

(***************************************************************************)
(* deployer_addr::curve_launcher (src/unnamed/part_011) with the           *)
(* deployer_addr::pool_pair it drives (src/unnamed/part_008).  A Pool is   *)
(* published under its creator's account, one per account, and every       *)
(* pool_pair function looks the pool up under @deployer_addr               *)
(* (find_pool_address).                                                    *)
(***************************************************************************)
MINUTES_PER_DAY == 1440
INITIAL_HEIGHT == 100
\* INITIAL_COIN_LIQUIDITY (1000_00000000 in the source)
INITIAL_COIN_LIQUIDITY == 4
\* INITIAL_TOKEN_LIQUIDITY (1000000_00000000 in the source)
INITIAL_TOKEN_LIQUIDITY == 8
\* committed trades per pool the model follows
ClMaxTrades == 1

\* the calls of create_new_pool the model makes, as <<account,
\* ticker_duration, threshold_percent, start_delay>>: a valid one for each
\* account, one with a ticker that is not allowed, and one that starts too
\* late after an earlier pool
CreateCalls ==
  { <<ADMIN, 5, 10, 60>>, <<USER, 5, 10, 60>>, <<ADMIN, 7, 10, 60>>,
    <<ADMIN, 5, 10, 130000>> }
ClAmounts == {0, 2, MAX_U64}

\* curve_launcher::init_module
cl_launcher_init ==
  [ current_pool_id |-> 0,
    last_pool_start |-> 0,
    current_height |-> INITIAL_HEIGHT,
    active_pools |-> << >>,
    completed_pools |-> << >>,
    burned_pools |-> << >> ]

\* exists<Pool>(addr) and borrow_global<Pool>(addr)
cl_has_pool(pools, addr) == \E p \in pools : p.creator = addr

cl_pool_at(pools, addr) == CHOOSE p \in pools : p.creator = addr

\* the pools with the one under @deployer_addr replaced by q
cl_put(pools, q) == {p \in pools : p.creator # q.creator} \cup {q}

find_pool_address(pool_id) == ADMIN

\* vector::index_of: the 1-based place of x in v, 0 if it is not there
RECURSIVE index_of(_, _, _)
index_of(v, x, i) ==
  IF i > Len(v) THEN 0 ELSE IF v[i] = x THEN i ELSE index_of(v, x, i + 1)

\* vector::remove
remove_at(v, i) == SubSeq(v, 1, i - 1) \o SubSeq(v, i + 1, Len(v))

RECURSIVE integer_sqrt_loop(_, _, _)
integer_sqrt_loop(x, z, y) ==
  IF z < y THEN integer_sqrt_loop(x, (x \div z + z) \div 2, z) ELSE y

integer_sqrt(x) ==
  IF x = 0 THEN 0 ELSE IF x = 1 THEN 1 ELSE integer_sqrt_loop(x, x \div 2 + 1, x)

\* create_pool giving every pool the id 1
cl_create_pool_first_id(creator, pool_id, params, start_time) ==
  [ id |-> 1,
    params |-> params,
    start_time |-> start_time,
    end_time |-> start_time + POOL_DURATION_SECONDS,
    is_active |-> TRUE,
    is_locked |-> FALSE,
    creator |-> creator,
    reserve_coin |-> INITIAL_COIN_LIQUIDITY,
    reserve_token |-> INITIAL_TOKEN_LIQUIDITY,
    trade_history |-> << >>,
    trader_scores |-> << >>,
    winner |-> ZERO_ADDR,
    total_volume |-> 0 ]

cl_create_pool(creator, pool_id, params, start_time) ==
  [ id |-> pool_id,
    params |-> params,
    start_time |-> start_time,
    end_time |-> start_time + POOL_DURATION_SECONDS,
    is_active |-> TRUE,
    is_locked |-> FALSE,
    creator |-> creator,
    reserve_coin |-> INITIAL_COIN_LIQUIDITY,
    reserve_token |-> INITIAL_TOKEN_LIQUIDITY,
    trade_history |-> << >>,
    trader_scores |-> << >>,
    winner |-> ZERO_ADDR,
    total_volume |-> 0 ]

create_pool_from_system(pool_id, params, start_time) ==
  [cl_create_pool(ADMIN, pool_id, params, start_time) EXCEPT !.reserve_coin = 0]

\* the start create_new_pool gives the pool
create_new_pool_start(launcher, t, start_delay) == t + start_delay

\* create_new_pool without the assert on the proposed start
create_new_pool_accepts_no_window(launcher, pools, t, account, ticker_duration, start_delay) ==
  /\ ticker_duration = 5 \/ ticker_duration = 10 \/ ticker_duration = 15
  /\ launcher.current_pool_id + 1 <= MAX_U64
  /\ ~cl_has_pool(pools, account)

\* create_new_pool accepting every positive ticker_duration
create_new_pool_accepts_any_ticker(launcher, pools, t, account, ticker_duration, start_delay) ==
  /\ ticker_duration > 0
  /\ launcher.current_pool_id + 1 <= MAX_U64
  /\ launcher.last_pool_start # 0 =>
       t + start_delay <= launcher.last_pool_start + POOL_DURATION_SECONDS + 12 * 3600
  /\ ~cl_has_pool(pools, account)

create_new_pool_accepts(launcher, pools, t, account, ticker_duration, start_delay) ==
  /\ ticker_duration = 5 \/ ticker_duration = 10 \/ ticker_duration = 15
  /\ launcher.current_pool_id + 1 <= MAX_U64
  /\ launcher.last_pool_start # 0 =>
       t + start_delay <= launcher.last_pool_start + POOL_DURATION_SECONDS + 12 * 3600
  /\ ~cl_has_pool(pools, account)

\* the Pool a committed create_new_pool publishes under the signer's account
create_new_pool_pool(launcher, t, account, ticker_duration, threshold_percent, start_delay) ==
  cl_create_pool(account, launcher.current_pool_id + 1,
                 [ height |-> launcher.current_height,
                   length |-> MINUTES_PER_DAY \div ticker_duration,
                   ticker_duration |-> ticker_duration,
                   threshold_percent |-> threshold_percent ],
                 create_new_pool_start(launcher, t, start_delay))

\* the pools after a call of create_new_pool: an abort leaves them as they were
create_new_pool_pools(launcher, pools, t, account, ticker_duration, threshold_percent, start_delay) ==
  IF create_new_pool_accepts(launcher, pools, t, account, ticker_duration, start_delay)
  THEN pools \cup {create_new_pool_pool(launcher, t, account, ticker_duration,
                                        threshold_percent, start_delay)}
  ELSE pools

\* the LauncherData after a call of create_new_pool
create_new_pool_launcher(launcher, pools, t, account, ticker_duration, start_delay) ==
  IF create_new_pool_accepts(launcher, pools, t, account, ticker_duration, start_delay)
  THEN [launcher EXCEPT
          !.current_pool_id = launcher.current_pool_id + 1,
          !.active_pools = Append(launcher.active_pools, launcher.current_pool_id + 1),
          !.last_pool_start = create_new_pool_start(launcher, t, start_delay)]
  ELSE launcher

create_new_pool(account, ticker_duration, threshold_percent, start_delay) ==
  /\ sys = "cl"
  /\ cl_pools' = create_new_pool_pools(cl_launcher, cl_pools, now, account,
                                       ticker_duration, threshold_percent, start_delay)
  /\ cl_launcher' = create_new_pool_launcher(cl_launcher, cl_pools, now, account,
                                             ticker_duration, start_delay)
  /\ last' = Call("create_new_pool",
                  create_new_pool_accepts(cl_launcher, cl_pools, now, account,
                                          ticker_duration, start_delay))
  /\ UNCHANGED <<sys, evm_pool, score_run, math_call, now, cl_pending, pm_vars, pp_vars>>

\* the asserts of part_008's buy_tokens / sell_tokens on the pool under
\* @deployer_addr
cl_trade_guard(pools, t, pool_id) ==
  /\ cl_has_pool(pools, find_pool_address(pool_id))
  /\ LET pool == cl_pool_at(pools, find_pool_address(pool_id))
     IN  /\ pool.id = pool_id
         /\ ~pool.is_locked
         /\ t >= pool.start_time
         /\ t <= pool.end_time
         /\ pool.reserve_coin # 0 /\ pool.reserve_token # 0
         /\ MulFits(pool.reserve_coin, pool.reserve_token)

cl_buy_out(pool, coin_amount) ==
  pool.reserve_token
    - (pool.reserve_coin * pool.reserve_token) \div (pool.reserve_coin + coin_amount)

cl_sell_out(pool, token_amount) ==
  pool.reserve_coin
    - (pool.reserve_coin * pool.reserve_token) \div (pool.reserve_token + token_amount)

cl_buy_tokens_accepts(pools, t, pool_id, coin_amount) ==
  /\ cl_trade_guard(pools, t, pool_id)
  /\ LET pool == cl_pool_at(pools, find_pool_address(pool_id))
     IN  /\ pool.reserve_coin + coin_amount <= MAX_U64
         /\ cl_buy_out(pool, coin_amount) > 0
         /\ pool.reserve_token >= cl_buy_out(pool, coin_amount)
         /\ pool.total_volume + coin_amount <= MAX_U64

cl_sell_tokens_accepts(pools, t, pool_id, token_amount) ==
  /\ cl_trade_guard(pools, t, pool_id)
  /\ LET pool == cl_pool_at(pools, find_pool_address(pool_id))
     IN  /\ pool.reserve_token + token_amount <= MAX_U64
         /\ cl_sell_out(pool, token_amount) > 0
         /\ pool.reserve_coin >= cl_sell_out(pool, token_amount)
         /\ pool.total_volume + cl_sell_out(pool, token_amount) <= MAX_U64

cl_calculate_current_price(coin, token) ==
  IF token = 0 THEN 0 ELSE coin \div token

cl_buy_tokens_effect(pool, t, trader, coin_amount) ==
  LET coin == pool.reserve_coin + coin_amount
      token == pool.reserve_token - cl_buy_out(pool, coin_amount)
  IN  [pool EXCEPT
         !.reserve_coin = coin,
         !.reserve_token = token,
         !.total_volume = pool.total_volume + coin_amount,
         !.trade_history =
            Append(pool.trade_history,
                   [ timestamp |-> t, price |-> cl_calculate_current_price(coin, token),
                     volume |-> coin_amount, is_buy |-> TRUE, trader |-> trader ])]

cl_sell_tokens_effect(pool, t, trader, token_amount) ==
  LET coins_out == cl_sell_out(pool, token_amount)
      coin == pool.reserve_coin - coins_out
      token == pool.reserve_token + token_amount
  IN  [pool EXCEPT
         !.reserve_coin = coin,
         !.reserve_token = token,
         !.total_volume = pool.total_volume + coins_out,
         !.trade_history =
            Append(pool.trade_history,
                   [ timestamp |-> t, price |-> cl_calculate_current_price(coin, token),
                     volume |-> coins_out, is_buy |-> FALSE, trader |-> trader ])]

cl_buy_tokens(account, pool_id, coin_amount) ==
  /\ sys = "cl"
  /\ IF cl_buy_tokens_accepts(cl_pools, now, pool_id, coin_amount)
     THEN LET pool == cl_pool_at(cl_pools, find_pool_address(pool_id))
          IN  /\ Len(pool.trade_history) < ClMaxTrades
              /\ cl_pools' = cl_put(cl_pools,
                                    cl_buy_tokens_effect(pool, now, account, coin_amount))
              /\ last' = Call("buy_tokens", TRUE)
     ELSE /\ UNCHANGED cl_pools
          /\ last' = Call("buy_tokens", FALSE)
  /\ UNCHANGED <<sys, evm_pool, score_run, math_call, now, cl_launcher, cl_pending, pm_vars, pp_vars>>

cl_sell_tokens(account, pool_id, token_amount) ==
  /\ sys = "cl"
  /\ IF cl_sell_tokens_accepts(cl_pools, now, pool_id, token_amount)
     THEN LET pool == cl_pool_at(cl_pools, find_pool_address(pool_id))
          IN  /\ Len(pool.trade_history) < ClMaxTrades
              /\ cl_pools' = cl_put(cl_pools,
                                    cl_sell_tokens_effect(pool, now, account, token_amount))
              /\ last' = Call("sell_tokens", TRUE)
     ELSE /\ UNCHANGED cl_pools
          /\ last' = Call("sell_tokens", FALSE)
  /\ UNCHANGED <<sys, evm_pool, score_run, math_call, now, cl_launcher, cl_pending, pm_vars, pp_vars>>

\* part_008's finalize_pool: the pool under @deployer_addr must carry the id
cl_finalize_pool_accepts(pools, pool_id) ==
  /\ cl_has_pool(pools, find_pool_address(pool_id))
  /\ cl_pool_at(pools, find_pool_address(pool_id)).id = pool_id

cl_finalize_pool_effect(pool) ==
  [pool EXCEPT
     !.is_active = FALSE,
     !.winner = IF ~pool.is_locked /\ Len(pool.trader_scores) > 0
                THEN find_best_trader(pool.trader_scores) ELSE pool.winner]

cl_finalize_pool_post(pools, pool_id) ==
  IF cl_finalize_pool_accepts(pools, pool_id)
  THEN cl_put(pools,
              cl_finalize_pool_effect(cl_pool_at(pools, find_pool_address(pool_id))))
  ELSE pools

cl_finalize_pool(account, pool_id) ==
  /\ sys = "cl"
  /\ cl_pools' = cl_finalize_pool_post(cl_pools, pool_id)
  /\ last' = Call("finalize_pool", cl_finalize_pool_accepts(cl_pools, pool_id))
  /\ UNCHANGED <<sys, evm_pool, score_run, math_call, now, cl_launcher, cl_pending, pm_vars, pp_vars>>

complete_pool_accepts(launcher, pools, pool_id) ==
  /\ index_of(launcher.active_pools, pool_id, 1) # 0
  /\ cl_finalize_pool_accepts(pools, pool_id)
  /\ MulFits(launcher.current_height,
             integer_sqrt(cl_pool_at(pools, find_pool_address(pool_id)).params.length))

complete_pool_effect(launcher, pools, pool_id) ==
  [launcher EXCEPT
     !.active_pools = remove_at(launcher.active_pools,
                                index_of(launcher.active_pools, pool_id, 1)),
     !.completed_pools = Append(launcher.completed_pools, pool_id),
     !.current_height =
        launcher.current_height
          * integer_sqrt(cl_pool_at(pools, find_pool_address(pool_id)).params.length)]

complete_pool_post(launcher, pools, pool_id) ==
  IF complete_pool_accepts(launcher, pools, pool_id)
  THEN complete_pool_effect(launcher, pools, pool_id)
  ELSE launcher

complete_pool(account, pool_id) ==
  /\ sys = "cl"
  /\ cl_launcher' = complete_pool_post(cl_launcher, cl_pools, pool_id)
  /\ cl_pools' = IF complete_pool_accepts(cl_launcher, cl_pools, pool_id)
                 THEN cl_finalize_pool_post(cl_pools, pool_id)
                 ELSE cl_pools
  /\ last' = Call("complete_pool", complete_pool_accepts(cl_launcher, cl_pools, pool_id))
  /\ UNCHANGED <<sys, evm_pool, score_run, math_call, now, cl_pending, pm_vars, pp_vars>>

lock_and_burn_pool(pool) ==
  [pool EXCEPT !.is_locked = TRUE, !.is_active = FALSE,
               !.reserve_coin = 0, !.reserve_token = 0]

\* move_to(account, PendingVRF) aborts when the account already holds one
external_lock_pool_accepts(launcher, pools, pending, account, pool_id) ==
  /\ index_of(launcher.active_pools, pool_id, 1) # 0
  /\ cl_finalize_pool_accepts(pools, pool_id)
  /\ MulFits(launcher.current_height,
             integer_sqrt(cl_pool_at(pools, find_pool_address(pool_id)).params.length))
  /\ ~\E v \in pending : v.caller = account

external_lock_pool(account, pool_id) ==
  /\ sys = "cl"
  /\ IF external_lock_pool_accepts(cl_launcher, cl_pools, cl_pending, account, pool_id)
     THEN LET pool == cl_pool_at(cl_pools, find_pool_address(pool_id))
          IN  /\ cl_pools' = cl_put(cl_pools, lock_and_burn_pool(pool))
              /\ cl_launcher' =
                   [cl_launcher EXCEPT
                      !.active_pools =
                         remove_at(cl_launcher.active_pools,
                                   index_of(cl_launcher.active_pools, pool_id, 1)),
                      !.burned_pools = Append(cl_launcher.burned_pools, pool_id),
                      !.current_height =
                         cl_launcher.current_height * integer_sqrt(pool.params.length)]
              /\ cl_pending' = cl_pending \cup
                   { [ pool_id |-> pool_id, caller |-> account,
                       scheduled_start |->
                         cl_launcher.last_pool_start + POOL_DURATION_SECONDS ] }
              /\ last' = Call("external_lock_pool", TRUE)
     ELSE /\ UNCHANGED <<cl_pools, cl_launcher, cl_pending>>
          /\ last' = Call("external_lock_pool", FALSE)
  /\ UNCHANGED <<sys, evm_pool, score_run, math_call, now, pm_vars, pp_vars>>

\* the VRF callback: create_pool_from_system publishes the new Pool under
\* @deployer_addr and aborts when a Pool is already there
handle_random_params_accepts(launcher, pools, pending, t, caller_address) ==
  /\ \E v \in pending : v.caller = caller_address /\ t >= v.scheduled_start
  /\ launcher.current_pool_id + 1 <= MAX_U64
  /\ ~cl_has_pool(pools, ADMIN)

handle_random_params(caller_address, random_0, random_1) ==
  /\ sys = "cl"
  /\ IF handle_random_params_accepts(cl_launcher, cl_pools, cl_pending, now,
                                     caller_address)
     THEN LET v == CHOOSE v \in cl_pending : v.caller = caller_address
              ticker_idx == random_0 % 3
              ticker_duration == IF ticker_idx = 0 THEN 5
                                 ELSE IF ticker_idx = 1 THEN 10 ELSE 15
              threshold == (random_1 % 20) + 10
              pool_id == cl_launcher.current_pool_id + 1
              params == [ height |-> cl_launcher.current_height,
                          length |-> MINUTES_PER_DAY \div ticker_duration,
                          ticker_duration |-> ticker_duration,
                          threshold_percent |-> threshold ]
          IN  /\ cl_pending' = cl_pending \ {v}
              /\ cl_pools' = cl_pools \cup
                   {create_pool_from_system(pool_id, params, v.scheduled_start)}
              /\ cl_launcher' =
                   [cl_launcher EXCEPT
                      !.current_pool_id = pool_id,
                      !.active_pools = Append(cl_launcher.active_pools, pool_id),
                      !.last_pool_start = v.scheduled_start]
              /\ last' = Call("handle_random_params", TRUE)
     ELSE /\ UNCHANGED <<cl_pools, cl_launcher, cl_pending>>
          /\ last' = Call("handle_random_params", FALSE)
  /\ UNCHANGED <<sys, evm_pool, score_run, math_call, now, pm_vars, pp_vars>>

(***************************************************************************)
(* TittyPool (src/evm/contracts/TittyPool.sol) with its MathUtils library  *)
(* (src/unnamed/part_007): the Solidity deployment, sys = "evm".  The      *)
(* uint256 word is modelled by MAX_U256 below; Solidity 0.8 reverts the    *)
(* transaction on an unchecked overflow, and a revert leaves the storage   *)
(* unchanged.                                                              *)
(***************************************************************************)
\* uint256 word (2^256 - 1 in the source), here 2^30 - 1
MAX_U256 == 1073741823
\* 1 ether, the native amount of the initial x reserve (10^18 wei in the source)
EvmEther == 4
\* INITIAL_TOKEN_SUPPLY of TittyPool (10^24 in the source)
EvmTokenSupply == 40
\* MAX_DELAY = 12 hours
EvmMaxDelay == 43200
\* the constructor's _hValue: the fixed-point height at which a one-ether
\* first buy lands on the curve's middle candle
EvmHValue == 2000
EvmStartDelay == 60
\* trades made on one TittyPool in a behaviour
EvmMaxTrades == 3
EvmLValues == {96, 144}
EvmQuantities == {1, EvmEther}

safeAdd(a, b) == IF a > MAX_U256 - b THEN MAX_U256 ELSE a + b

safeSub(a, b) == IF a < b THEN 0 ELSE a - b

safeMul(a, b) ==
  IF a = 0 \/ b = 0 THEN 0
  ELSE IF a > MAX_U256 \div b THEN MAX_U256 ELSE a * b

safeDiv(a, b) == IF b = 0 THEN 0 ELSE a \div b

\* the checked product (a / b) * PRECISION of the fallback branch overflows
safeDivPrecision_reverts(a, b) ==
  b # 0 /\ a > MAX_U256 \div PRECISION /\ (a \div b) > MAX_U256 \div PRECISION

safeDivPrecision(a, b) ==
  IF b = 0 THEN 0
  ELSE IF a > MAX_U256 \div PRECISION
       THEN (IF safeDivPrecision_reverts(a, b) THEN 0 ELSE (a \div b) * PRECISION)
       ELSE (a * PRECISION) \div b

absDiff(a, b) == IF a > b THEN a - b ELSE b - a

toFixedPoint_reverts(value) == value > MAX_U256 \div PRECISION

toFixedPoint(value) == IF toFixedPoint_reverts(value) THEN 0 ELSE value * PRECISION

fromFixedPoint(value) == value \div PRECISION

calculateCurveY_reverts(x, h, l) ==
  /\ ~(x > l \/ l = 0) /\ x # 0
  /\ safeDivPrecision_reverts(safeMul(safeMul(safeMul(4, h), x), safeSub(l, x)), safeMul(l, l))

calculateCurveY(x, h, l) ==
  IF x > l \/ l = 0 THEN 0
  ELSE IF x = 0 THEN 0
  ELSE LET lMinusX == safeSub(l, x)
           fourH == safeMul(4, h)
           numerator == safeMul(safeMul(fourH, x), lMinusX)
           denominator == safeMul(l, l)
       IN  safeDivPrecision(numerator, denominator)

calculateAmmOut(xIn, xReserve, yReserve) ==
  IF xReserve = 0 \/ yReserve = 0 \/ xIn = 0 THEN 0
  ELSE LET k == safeMul(xReserve, yReserve)
           newXReserve == safeAdd(xReserve, xIn)
       IN  IF newXReserve = 0 THEN 0
           ELSE safeSub(yReserve, safeDiv(k, newXReserve))

calculateDeviation_reverts(actual, expected) ==
  /\ expected # 0
  /\ \/ absDiff(actual, expected) > MAX_U256 \div 10000
     \/ safeDivPrecision_reverts(absDiff(actual, expected) * 10000, expected)

calculateDeviation(actual, expected) ==
  IF expected = 0 THEN 0
  ELSE IF calculateDeviation_reverts(actual, expected) THEN 0
  ELSE safeDivPrecision(absDiff(actual, expected) * 10000, expected)

isValidCandleSize(candleSize) == candleSize \in {96, 144, 288}

\* the default value of a traderDeviations slot
evm_no_deviation == [trader |-> ZERO_ADDR, deviation |-> 0, tradeCount |-> 0, lastUpdated |-> 0]

\* the contract after its constructor; tokens is the pool's own balance of its
\* CryptoTitty token (minted to the token's owner at the token's creation),
\* ether the native balance the contract holds, finalized the winner of
\* the latest PoolWinnerFinalized event
TittyPool_constructor(initialOwner, lValue, hValue, startTime) ==
  [ owner |-> initialOwner,
    poolInfo |-> [ poolId |-> 1, lValue |-> lValue, hValue |-> hValue,
                   xReserve |-> toFixedPoint(EvmEther),
                   yReserve |-> toFixedPoint(EvmTokenSupply),
                   startTime |-> startTime,
                   endTime |-> startTime + POOL_DURATION_SECONDS,
                   isLocked |-> FALSE, totalTrades |-> 0,
                   currentWinner |-> ZERO_ADDR,
                   winnerProposedDelay |-> 0, winnerProposedCandleSize |-> 0 ],
    traderDeviations |-> [a \in Traders |-> evm_no_deviation],
    traders |-> << >>,
    tokens |-> EvmTokenSupply,
    ether |-> 0,
    finalized |-> ZERO_ADDR ]

RECURSIVE getCurrentWinner_loop(_, _, _, _, _, _)
getCurrentWinner_loop(traders, devs, i, winner, minDeviation, latestTime) ==
  IF i > Len(traders) THEN winner
  ELSE LET dev == devs[traders[i]]
       IN  IF \/ dev.deviation < minDeviation
              \/ (dev.deviation = minDeviation /\ dev.lastUpdated > latestTime)
           THEN getCurrentWinner_loop(traders, devs, i + 1, traders[i],
                                      dev.deviation, dev.lastUpdated)
           ELSE getCurrentWinner_loop(traders, devs, i + 1, winner,
                                      minDeviation, latestTime)

getCurrentWinner(pool) ==
  getCurrentWinner_loop(pool.traders, pool.traderDeviations, 1, ZERO_ADDR, MAX_U256, 0)

updateTraderDeviation(pool, trader, deviation, t) ==
  LET traderDev == pool.traderDeviations[trader]
      isNew == traderDev.trader = ZERO_ADDR
      dev == IF traderDev.deviation = 0 \/ deviation < traderDev.deviation
             THEN deviation ELSE traderDev.deviation
  IN  [pool EXCEPT
         !.traders = IF isNew THEN Append(pool.traders, trader) ELSE pool.traders,
         !.traderDeviations[trader] =
            [ trader |-> trader, deviation |-> dev,
              tradeCount |-> traderDev.tradeCount + 1, lastUpdated |-> t ]]

checkForNewWinner(pool, trader, delay, candleSize) ==
  LET currentWinner == getCurrentWinner(pool)
  IN  IF currentWinner # pool.poolInfo.currentWinner /\ currentWinner = trader
      THEN [pool EXCEPT !.poolInfo.currentWinner = currentWinner,
                        !.poolInfo.winnerProposedDelay = delay,
                        !.poolInfo.winnerProposedCandleSize = candleSize]
      ELSE pool

\* the curve value trade compares the AMM output with
trade_curveExpected(pool, t) ==
  LET currentCandleSize == (24 * 60) \div pool.poolInfo.lValue
      timeElapsed == t - pool.poolInfo.startTime
      candleDuration == currentCandleSize * 60
      currentCandle == IF timeElapsed < candleDuration THEN 0
                       ELSE timeElapsed \div candleDuration
      nextCandle == currentCandle + 1
      hRegular == fromFixedPoint(pool.poolInfo.hValue)
  IN  calculateCurveY(nextCandle, hRegular, pool.poolInfo.lValue)

trade_ammOutput(pool, quantity, side) ==
  IF side
  THEN calculateAmmOut(toFixedPoint(quantity), pool.poolInfo.xReserve, pool.poolInfo.yReserve)
  ELSE calculateAmmOut(toFixedPoint(quantity), pool.poolInfo.yReserve, pool.poolInfo.xReserve)

TittyPool_trade_accepts(pool, quantity, side, delay, candleSize, t) ==
  /\ ~pool.poolInfo.isLocked
  /\ t >= pool.poolInfo.startTime /\ t <= pool.poolInfo.endTime
  /\ delay <= EvmMaxDelay
  /\ isValidCandleSize(candleSize)
  /\ LET hRegular == fromFixedPoint(pool.poolInfo.hValue)
         timeElapsed == t - pool.poolInfo.startTime
         candleDuration == ((24 * 60) \div pool.poolInfo.lValue) * 60
         nextCandle == (IF timeElapsed < candleDuration THEN 0
                        ELSE timeElapsed \div candleDuration) + 1
     IN  ~calculateCurveY_reverts(nextCandle, hRegular, pool.poolInfo.lValue)
  /\ ~toFixedPoint_reverts(quantity)
  /\ ~calculateDeviation_reverts(trade_ammOutput(pool, quantity, side),
                                 trade_curveExpected(pool, t))
  /\ side \/ ( /\ pool.tokens >= quantity
               /\ pool.ether >= fromFixedPoint(trade_ammOutput(pool, quantity, side)) )

TittyPool_trade_effect(pool, trader, quantity, side, delay, candleSize, t) ==
  LET inputAmountFixed == toFixedPoint(quantity)
      ammOutput == trade_ammOutput(pool, quantity, side)
      deviation == calculateDeviation(ammOutput, trade_curveExpected(pool, t))
      moved == IF side
               THEN [pool EXCEPT
                       !.poolInfo.xReserve = safeAdd(pool.poolInfo.xReserve, inputAmountFixed),
                       !.poolInfo.yReserve = safeSub(pool.poolInfo.yReserve, ammOutput),
                       !.ether = pool.ether + quantity]
               ELSE [pool EXCEPT
                       !.poolInfo.xReserve = safeSub(pool.poolInfo.xReserve, ammOutput),
                       !.poolInfo.yReserve = safeAdd(pool.poolInfo.yReserve, inputAmountFixed),
                       !.tokens = pool.tokens - quantity,
                       !.ether = pool.ether - fromFixedPoint(ammOutput)]
      scored == updateTraderDeviation(moved, trader, deviation, t)
      checked == checkForNewWinner(scored, trader, delay, candleSize)
  IN  [checked EXCEPT !.poolInfo.totalTrades = checked.poolInfo.totalTrades + 1]

TittyPool_trade(trader, quantity, side, delay, candleSize) ==
  /\ sys = "evm"
  /\ evm_pool.poolInfo.totalTrades < EvmMaxTrades
  /\ IF TittyPool_trade_accepts(evm_pool, quantity, side, delay, candleSize, now)
     THEN /\ evm_pool' = TittyPool_trade_effect(evm_pool, trader, quantity, side,
                                                delay, candleSize, now)
          /\ last' = Call("trade", TRUE)
     ELSE /\ UNCHANGED evm_pool
          /\ last' = Call("trade", FALSE)
  /\ UNCHANGED <<sys, score_run, math_call, now, pm_vars, pp_vars, cl_vars>>

lockPool(caller) ==
  /\ sys = "evm"
  /\ IF caller = evm_pool.owner /\ ~evm_pool.poolInfo.isLocked
     THEN /\ evm_pool' = [evm_pool EXCEPT !.poolInfo.isLocked = TRUE, !.tokens = 0]
          /\ last' = Call("lockPool", TRUE)
     ELSE /\ UNCHANGED evm_pool
          /\ last' = Call("lockPool", FALSE)
  /\ UNCHANGED <<sys, score_run, math_call, now, pm_vars, pp_vars, cl_vars>>

finalizeWinner(caller) ==
  /\ sys = "evm"
  /\ IF /\ caller = evm_pool.owner
        /\ now > evm_pool.poolInfo.endTime
        /\ ~evm_pool.poolInfo.isLocked
     THEN /\ evm_pool' = [evm_pool EXCEPT !.finalized = evm_pool.poolInfo.currentWinner]
          /\ last' = Call("finalizeWinner", TRUE)
     ELSE /\ UNCHANGED evm_pool
          /\ last' = Call("finalizeWinner", FALSE)
  /\ UNCHANGED <<sys, score_run, math_call, now, pm_vars, pp_vars, cl_vars>>

\* the instants at which the TittyPool is observed: its start, the start of
\* the candle before the middle of a 96-candle curve and the second after
\* it, its very end, and just after it
evm_instants(pool) ==
  { pool.poolInfo.startTime, pool.poolInfo.startTime + 47 * 900,
    pool.poolInfo.startTime + 47 * 900 + 1,
    pool.poolInfo.endTime, pool.poolInfo.endTime + 1 }

evm_tick ==
  /\ sys = "evm"
  /\ \E t \in evm_instants(evm_pool) : t > now /\ now' = t
  /\ last' = Call("tick", TRUE)
  /\ UNCHANGED <<sys, score_run, math_call, evm_pool, pm_vars, pp_vars, cl_vars>>

(***************************************************************************)
(* The two score rules side by side, sys = "score": each sample is given   *)
(* to pool_manager::update_trader_deviation and to                         *)
(* pool_pair::update_trader_score, one second after the previous one.      *)
(***************************************************************************)
\* samples recorded in one behaviour
ScoreMaxTrades == 6
\* the deviations sampled: three that separate the two rules, and the
\* largest u64
ScoreSamples == {10, 22, 40, MAX_U64}

\* trader_deviations of pool_manager and trader_scores of pool_pair, both empty
score_run_init == [trader_deviations |-> << >>, trader_scores |-> << >>]

score_sample(trader, deviation) ==
  /\ sys = "score"
  /\ now - GENESIS < ScoreMaxTrades
  /\ IF ~update_trader_score_aborts(score_run.trader_scores, trader, deviation, 0)
     THEN /\ score_run' =
               [ trader_deviations |->
                   update_trader_deviation(score_run.trader_deviations, trader,
                                           deviation, now),
                 trader_scores |->
                   update_trader_score(score_run.trader_scores, trader, deviation, 0) ]
          /\ now' = now + 1
          /\ last' = Call("score_sample", TRUE)
     ELSE /\ UNCHANGED <<score_run, now>>
          /\ last' = Call("score_sample", FALSE)
  /\ UNCHANGED <<sys, evm_pool, math_call, pm_vars, pp_vars, cl_vars>>

(***************************************************************************)
(* Specifications                                                          *)
(***************************************************************************)
\* the instants at which the pool_manager pool is observed after its creation
\* (which is before its start): its start, one candle later, its very end,
\* and just after it
pm_instants(pool) ==
  { pool.start_time, pool.start_time + trade_candle_duration(pool),
    pool.end_time, pool.end_time + 1 }

pm_tick ==
  /\ sys = "pm"
  /\ \E t \in pm_instants(pm_pool) : t > now /\ now' = t
  /\ last' = Call("tick", TRUE)
  /\ UNCHANGED <<sys, evm_pool, score_run, math_call, pm_vars, pp_vars, cl_vars>>

\* the storage of every deployment right after its modules are published and
\* its first pool is created, at time GENESIS
InitStorage ==
  /\ now = GENESIS
  /\ last = Call("init", TRUE)
  /\ \E l \in PmLValues : pm_pool = pm_create_pool(l, PmStartDelay, GENESIS)
  /\ pm_pending = FALSE
  /\ pm_registry = pm_registry_init(pm_pool)
  /\ pm_treasury = tits_treasury_init
  /\ pp_pool = pp_create_pool(ADMIN, 1,
                  [ height |-> PpHeight, length |-> PpLength,
                    ticker_duration |-> PpTicker, threshold_percent |-> PpThreshold ],
                  GENESIS + PpStartDelay)
  /\ pp_treasury = pp_treasury_init
  /\ cl_launcher = cl_launcher_init
  /\ cl_pools = {}
  /\ cl_pending = {}
  /\ evm_pool = TittyPool_constructor(ADMIN, 96, EvmHValue, GENESIS + EvmStartDelay)
  /\ score_run = score_run_init

Init ==
  /\ sys \in {"pm", "pp", "cl"}
  /\ math_call = MathArgs(0, 0, 0)
  /\ InitStorage

InitPM == Init /\ sys = "pm"

InitPP == Init /\ sys = "pp"

\* pool_manager and tits_treasury right after their init_module, before any
\* create_pool
InitPMCreate ==
  /\ sys = "pmc"
  /\ math_call = MathArgs(0, 0, 0)
  /\ now = GENESIS
  /\ last = Call("init", TRUE)
  /\ pm_pool = pm_no_pool
  /\ pm_pending = FALSE
  /\ pm_registry = pm_registry_init_module
  /\ pm_treasury = tits_treasury_init
  /\ pp_pool = pp_create_pool(ADMIN, 1,
                  [ height |-> PpHeight, length |-> PpLength,
                    ticker_duration |-> PpTicker, threshold_percent |-> PpThreshold ],
                  GENESIS + PpStartDelay)
  /\ pp_treasury = pp_treasury_init
  /\ cl_launcher = cl_launcher_init
  /\ cl_pools = {}
  /\ cl_pending = {}
  /\ evm_pool = TittyPool_constructor(ADMIN, 96, EvmHValue, GENESIS + EvmStartDelay)
  /\ score_run = score_run_init

NextPMCreate ==
  \/ \E funder \in Traders, admin_addr \in Traders, amount \in FundAmounts :
       fund_treasury(funder, admin_addr, amount)
  \/ \E admin \in Traders, amount \in WithdrawAmounts : withdraw_fees(admin, amount)
  \/ \E c \in CreatePoolCalls : create_pool(c[1], c[2], c[3])

SpecPMCreate == InitPMCreate /\ [][NextPMCreate]_vars

\* the instants at which the pool_pair pool is observed: its start, the
\* starts of its candles 1 and 2, its very end, and just after it
pp_instants(pool) ==
  { pool.start_time, pool.start_time + 60 * pool.params.ticker_duration,
    pool.start_time + 120 * pool.params.ticker_duration,
    pool.end_time, pool.end_time + 1 }

pp_tick ==
  /\ sys = "pp"
  /\ \E t \in pp_instants(pp_pool) : t > now /\ now' = t
  /\ last' = Call("tick", TRUE)
  /\ UNCHANGED <<sys, evm_pool, score_run, math_call, pm_vars, pp_vars, cl_vars>>

NextPP ==
  \/ \E account \in Traders, pool_id \in PoolIds, coin_amount \in PpAmounts :
       buy_tokens(account, pool_id, coin_amount)
  \/ \E account \in Traders, pool_id \in PoolIds, token_amount \in PpAmounts :
       sell_tokens(account, pool_id, token_amount)
  \/ \E account \in Traders, pool_id \in PoolIds : activate_pool(account, pool_id)
  \/ \E account \in Traders, pool_id \in PoolIds : finalize_pool(account, pool_id)
  \/ pp_tick

SpecPP == InitPP /\ [][NextPP]_vars

NextPM ==
  \/ \E c \in TradeCalls : trade(c[1], c[2], c[3], c[4], c[5], c[6])
  \/ \E admin \in Traders, pool_id \in PoolIds : lock_pool(admin, pool_id)
  \/ \E caller \in Traders, caller_address \in Traders, random_value \in RandomValues :
       handle_random_pool_params(caller, caller_address, random_value)
  \/ pm_tick

SpecPM == InitPM /\ [][NextPM]_vars

\* the trades made in the automated deployment: a buy by each trader, each
\* with its own proposal
AutoTradeCalls == { <<ADMIN, 1, 0, TRUE, 12 * 3600, 5>>, <<USER, 1, 1, TRUE, 0, 10>> }

\* pool_manager run by the automation: traders trade, the treasury is
\* funded, time passes, the VRF delivers, and check_pool_status runs
NextAuto ==
  \/ \E c \in AutoTradeCalls : trade(c[1], c[2], c[3], c[4], c[5], c[6])
  \/ \E funder \in Traders : fund_treasury(funder, ADMIN, INITIAL_X)
  \/ \E caller \in Traders, random_value \in RandomValues :
       handle_random_pool_params(caller, caller, random_value)
  \/ \E admin \in Traders : check_pool_status(admin)
  \/ pm_tick

\* the automation is run again and again by the admin, time advances, a
\* funder keeps funding, and the VRF delivers what was requested
SpecAuto ==
  /\ InitPM
  /\ [][NextAuto]_vars
  /\ WF_vars(check_pool_status(ADMIN))
  /\ WF_vars(pm_tick)
  /\ WF_vars(fund_treasury(ADMIN, ADMIN, INITIAL_X))
  /\ WF_vars(\E random_value \in RandomValues :
               handle_random_pool_params(ADMIN, ADMIN, random_value))

InitCL == Init /\ sys = "cl"

\* the instants at which the launcher's pools are observed: the start, the
\* end and the second after the end of the pool under @deployer_addr, the
\* only pool the operations reach
cl_instants(pools) ==
  UNION { {p.start_time, p.end_time, p.end_time + 1} :
            p \in {q \in pools : q.creator = ADMIN} }

cl_tick ==
  /\ sys = "cl"
  /\ \E t \in cl_instants(cl_pools) : t > now /\ now' = t
  /\ last' = Call("tick", TRUE)
  /\ UNCHANGED <<sys, evm_pool, score_run, math_call, pm_vars, pp_vars, cl_vars>>

NextCL ==
  \/ \E c \in CreateCalls : create_new_pool(c[1], c[2], c[3], c[4])
  \/ \E account \in Traders, pool_id \in PoolIds, coin_amount \in ClAmounts :
       cl_buy_tokens(account, pool_id, coin_amount)
  \/ \E account \in Traders, pool_id \in PoolIds, token_amount \in ClAmounts :
       cl_sell_tokens(account, pool_id, token_amount)
  \/ \E account \in Traders, pool_id \in PoolIds : cl_finalize_pool(account, pool_id)
  \/ \E account \in Traders, pool_id \in PoolIds : complete_pool(account, pool_id)
  \/ \E account \in Traders, pool_id \in PoolIds : external_lock_pool(account, pool_id)
  \/ \E caller_address \in Traders, random_0 \in RandomValues,
        random_1 \in {0} :
       handle_random_params(caller_address, random_0, random_1)
  \/ cl_tick

SpecCL == InitCL /\ [][NextCL]_vars

\* the two deployments that trade, side by side
InitTrade == Init /\ sys \in {"pm", "pp"}

NextTrade == NextPM \/ NextPP

SpecTrade == InitTrade /\ [][NextTrade]_vars

\* the words the functions of math_utils are applied to: the ends of the
\* word range, the scale, the values around the square root of the word
\* (where a product starts to saturate) and around MAX_U128 / PRECISION (where
\* the fixed-point functions switch to their fallback branch)
MathWords ==
  { 0, 1, 2, PRECISION, MAX_U64, MAX_U64 + 1, MAX_U64 + 2,
    MAX_U128 \div PRECISION, MAX_U128 \div PRECISION + 1, MAX_U128 - 1, MAX_U128 }

\* more first arguments: the canonical lengths and the two sides of the
\* point where sqrt switches from its linear search to Newton's method
MathLengths == {96, 144, 288, 9999, 10000}

InitMath ==
  /\ sys = "math"
  /\ \E a \in MathWords \cup MathLengths, b \in MathWords, c \in MathWords :
       math_call = MathArgs(a, b, c)
  /\ InitStorage

\* each function applied to the arguments of math_call
call_safe_add ==
  /\ sys = "math"
  /\ math_call' = MathReturn(math_call, "safe_add",
                             safe_add(math_call.a, math_call.b),
                             FALSE)
  /\ last' = Call("safe_add", TRUE)
  /\ UNCHANGED <<sys, evm_pool, score_run, now, pm_vars, pp_vars, cl_vars>>

call_safe_sub ==
  /\ sys = "math"
  /\ math_call' = MathReturn(math_call, "safe_sub",
                             safe_sub(math_call.a, math_call.b),
                             FALSE)
  /\ last' = Call("safe_sub", TRUE)
  /\ UNCHANGED <<sys, evm_pool, score_run, now, pm_vars, pp_vars, cl_vars>>

call_safe_mul ==
  /\ sys = "math"
  /\ math_call' = MathReturn(math_call, "safe_mul",
                             safe_mul(math_call.a, math_call.b),
                             FALSE)
  /\ last' = Call("safe_mul", TRUE)
  /\ UNCHANGED <<sys, evm_pool, score_run, now, pm_vars, pp_vars, cl_vars>>

call_safe_div ==
  /\ sys = "math"
  /\ math_call' = MathReturn(math_call, "safe_div",
                             safe_div(math_call.a, math_call.b),
                             FALSE)
  /\ last' = Call("safe_div", TRUE)
  /\ UNCHANGED <<sys, evm_pool, score_run, now, pm_vars, pp_vars, cl_vars>>

call_safe_div_precision ==
  /\ sys = "math"
  /\ math_call' = MathReturn(math_call, "safe_div_precision",
                             safe_div_precision(math_call.a, math_call.b),
                             safe_div_precision_aborts(math_call.a, math_call.b))
  /\ last' = Call("safe_div_precision", ~safe_div_precision_aborts(math_call.a, math_call.b))
  /\ UNCHANGED <<sys, evm_pool, score_run, now, pm_vars, pp_vars, cl_vars>>

call_safe_div_fixed_point ==
  /\ sys = "math"
  /\ math_call' = MathReturn(math_call, "safe_div_fixed_point",
                             safe_div_fixed_point(math_call.a, math_call.b),
                             safe_div_fixed_point_aborts(math_call.a, math_call.b))
  /\ last' = Call("safe_div_fixed_point", ~safe_div_fixed_point_aborts(math_call.a, math_call.b))
  /\ UNCHANGED <<sys, evm_pool, score_run, now, pm_vars, pp_vars, cl_vars>>

call_safe_mul_fixed_point ==
  /\ sys = "math"
  /\ math_call' = MathReturn(math_call, "safe_mul_fixed_point",
                             safe_mul_fixed_point(math_call.a, math_call.b),
                             safe_mul_fixed_point_aborts(math_call.a, math_call.b))
  /\ last' = Call("safe_mul_fixed_point", ~safe_mul_fixed_point_aborts(math_call.a, math_call.b))
  /\ UNCHANGED <<sys, evm_pool, score_run, now, pm_vars, pp_vars, cl_vars>>

\* calculate_curve_y(x, h, l) with x = a, h = b, l = c
call_calculate_curve_y ==
  /\ sys = "math"
  /\ math_call' = MathReturn(math_call, "calculate_curve_y",
                             calculate_curve_y(math_call.a, math_call.b, math_call.c),
                             calculate_curve_y_aborts(math_call.a, math_call.b, math_call.c))
  /\ last' = Call("calculate_curve_y", ~calculate_curve_y_aborts(math_call.a, math_call.b, math_call.c))
  /\ UNCHANGED <<sys, evm_pool, score_run, now, pm_vars, pp_vars, cl_vars>>

\* calculate_amm_out(x_in, x_reserve, y_reserve) with x_in = a, x_reserve = b,
\* y_reserve = c
call_calculate_amm_out ==
  /\ sys = "math"
  /\ math_call' = MathReturn(math_call, "calculate_amm_out",
                             calculate_amm_out(math_call.a, math_call.b, math_call.c),
                             FALSE)
  /\ last' = Call("calculate_amm_out", TRUE)
  /\ UNCHANGED <<sys, evm_pool, score_run, now, pm_vars, pp_vars, cl_vars>>

call_sqrt ==
  /\ sys = "math"
  /\ math_call' = MathReturn(math_call, "sqrt",
                             sqrt(math_call.a),
                             sqrt_aborts(math_call.a))
  /\ last' = Call("sqrt", ~sqrt_aborts(math_call.a))
  /\ UNCHANGED <<sys, evm_pool, score_run, now, pm_vars, pp_vars, cl_vars>>

NextMath ==
  \/ call_sqrt
  \/ call_safe_add
  \/ call_safe_sub
  \/ call_safe_mul
  \/ call_safe_div
  \/ call_safe_div_precision
  \/ call_safe_div_fixed_point
  \/ call_safe_mul_fixed_point
  \/ call_calculate_curve_y
  \/ call_calculate_amm_out

SpecMath == InitMath /\ [][NextMath]_vars

\* the TittyPool right after its deployment by ADMIN
InitEvm ==
  /\ sys = "evm"
  /\ math_call = MathArgs(0, 0, 0)
  /\ now = GENESIS
  /\ last = Call("init", TRUE)
  /\ \E l \in PmLValues : pm_pool = pm_create_pool(l, PmStartDelay, GENESIS)
  /\ pm_pending = FALSE
  /\ pm_registry = pm_registry_init(pm_pool)
  /\ pm_treasury = tits_treasury_init
  /\ pp_pool = pp_create_pool(ADMIN, 1,
                  [ height |-> PpHeight, length |-> PpLength,
                    ticker_duration |-> PpTicker, threshold_percent |-> PpThreshold ],
                  GENESIS + PpStartDelay)
  /\ pp_treasury = pp_treasury_init
  /\ cl_launcher = cl_launcher_init
  /\ cl_pools = {}
  /\ cl_pending = {}
  /\ \E lValue \in EvmLValues :
       evm_pool = TittyPool_constructor(ADMIN, lValue, EvmHValue, GENESIS + EvmStartDelay)
  /\ score_run = score_run_init

NextEvm ==
  \/ \E trader \in Traders, quantity \in EvmQuantities, side \in BOOLEAN,
        candleSize \in {96, 100} :
       TittyPool_trade(trader, quantity, side, 0, candleSize)
  \/ \E caller \in Traders : lockPool(caller)
  \/ \E caller \in Traders : finalizeWinner(caller)
  \/ evm_tick

SpecEvm == InitEvm /\ [][NextEvm]_vars

InitScore ==
  /\ sys = "score"
  /\ math_call = MathArgs(0, 0, 0)
  /\ InitStorage

NextScore == \E trader \in Traders, deviation \in ScoreSamples : score_sample(trader, deviation)

SpecScore == InitScore /\ [][NextScore]_vars

(***************************************************************************)
(* Claims about pool_manager                                               *)
(***************************************************************************)
\* the four conditions C2 names, on the pool and the clock before the call
C2_Conditions(delay, candle_size) ==
  /\ ~pm_pool.is_locked
  /\ pm_pool.start_time <= now /\ now <= pm_pool.end_time
  /\ delay <= 43200
  /\ candle_size \in {5, 10, 15}

\* the proposals C2 is checked for, in every reachable state
C2_Proposals ==
  { <<12 * 3600, 5>>, <<12 * 3600, 10>>, <<12 * 3600, 15>>, <<0, 5>>,
    <<12 * 3600 + 1, 5>>, <<24 * 3600, 15>>, <<12 * 3600, 7>>, <<0, 0>>,
    <<0, 20>> }

\* C2: pool_manager.trade commits only if the pool is not locked, start_time
\* <= now <= end_time, the proposed delay is at most 12h and the proposed
\* candle size is 5, 10 or 15; a call that violates one of these aborts and
\* leaves every field of the pool as it was.
C2_TradeGuard ==
  sys = "pm" =>
    \A pool_id \in PoolIds, quantity \in Quantities, side \in BOOLEAN,
       p \in C2_Proposals :
      LET ok == trade_accepts(pm_pool, now, pool_id, quantity, side, p[1], p[2])
      IN  /\ ok => C2_Conditions(p[1], p[2])
          /\ ~C2_Conditions(p[1], p[2]) =>
               /\ ~ok
               /\ \A trader \in Traders :
                    trade_post(pm_pool, now, trader, pool_id, quantity, side, p[1], p[2])
                      = pm_pool

\* a trade was rejected on an unlocked pool inside its window that has
\* already traded: the rejection is due to the delay, the candle size or
\* the pool id
C2_Witness ==
  /\ sys = "pm" /\ last = Call("trade", FALSE)
  /\ ~pm_pool.is_locked /\ pm_pool.total_trades > 0
  /\ pm_pool.start_time <= now /\ now <= pm_pool.end_time

\* C5: after any sequence of accepted pool_manager.trade calls both reserves
\* of the pool are positive.
C5_ReservePositivity ==
  sys = "pm" => pm_pool.x_reserve > 0 /\ pm_pool.y_reserve > 0

\* C6: every accepted buy with quantity > 0 strictly increases x_reserve and
\* strictly decreases y_reserve, and every accepted sell with quantity > 0
\* strictly increases y_reserve and strictly decreases x_reserve.
C6_AmmMonotonic ==
  sys = "pm" =>
    \A trader \in Traders, quantity \in Quantities, side \in BOOLEAN :
      LET delay == 12 * 3600
          candle_size == 5
          post == trade_post(pm_pool, now, trader, pm_pool.id, quantity, side, delay,
                             candle_size)
      IN  (quantity > 0
           /\ trade_accepts(pm_pool, now, pm_pool.id, quantity, side, delay, candle_size))
          => IF side
             THEN post.x_reserve > pm_pool.x_reserve /\ post.y_reserve < pm_pool.y_reserve
             ELSE post.y_reserve > pm_pool.y_reserve /\ post.x_reserve < pm_pool.x_reserve

\* the pool has committed a buy and a sell of a positive quantity can still
\* commit
C6_Witness ==
  /\ sys = "pm" /\ last = Call("trade", TRUE)
  /\ pm_pool.x_reserve > to_fixed_point(INITIAL_X)
  /\ pm_pool.y_reserve < to_fixed_point(INITIAL_TOKEN_SUPPLY)
  /\ trade_accepts(pm_pool, now, pm_pool.id, 1, FALSE, 0, 5)

\* C7: with k = x_reserve * y_reserve before an accepted trade and k' the
\* product after it, k' <= k and k - k' is smaller than the new value of the
\* reserve that received the input.
C7_ConstantProduct ==
  sys = "pm" =>
    \A trader \in Traders, quantity \in Quantities, side \in BOOLEAN :
      LET delay == 12 * 3600
          candle_size == 5
          post == trade_post(pm_pool, now, trader, pm_pool.id, quantity, side, delay,
                             candle_size)
          k == pm_pool.x_reserve * pm_pool.y_reserve
          k_after == post.x_reserve * post.y_reserve
      IN  trade_accepts(pm_pool, now, pm_pool.id, quantity, side, delay, candle_size)
          => /\ k_after <= k
             /\ k - k_after < (IF side THEN post.x_reserve ELSE post.y_reserve)

\* a committed trade has lowered the product below its initial value (the
\* division truncated)
C7_Witness ==
  /\ sys = "pm" /\ last = Call("trade", TRUE)
  /\ pm_pool.x_reserve * pm_pool.y_reserve
       < to_fixed_point(INITIAL_X) * to_fixed_point(INITIAL_TOKEN_SUPPLY)
  /\ pm_pool.x_reserve > 0 /\ pm_pool.y_reserve > 0

\* the trader entries with the least deviation
C8_Best(traders) ==
  { i \in 1..Len(traders) : \A j \in 1..Len(traders) :
      traders[i].deviation <= traders[j].deviation }

\* C8: for a non-empty trader set get_current_winner / determine_winner return
\* a trader whose score is <= every trader's score and whose last_updated is
\* the greatest among the traders with that score.
C8_WinnerRule ==
  (sys = "pm" /\ Len(pm_pool.trader_deviations) > 0) =>
    LET traders == pm_pool.trader_deviations
    IN  \A w \in {get_current_winner(traders)[1], determine_winner(traders)[1]} :
          \E i \in C8_Best(traders) :
            /\ traders[i].trader = w
            /\ \A j \in C8_Best(traders) :
                 traders[j].last_updated <= traders[i].last_updated

(***************************************************************************)
(* Claims about locking and the pool_pair of sources/pool_pair.move        *)
(***************************************************************************)
\* C1: once a pool's is_locked flag is true it stays true, and every later
\* call of pool_manager.trade, pool_pair.buy_tokens or pool_pair.sell_tokens
\* on that pool is rejected and leaves every field of the pool as it was.
C1_LockedRejectsTrades ==
  [][ /\ (sys = "pm" /\ pm_pool.is_locked) =>
          /\ pm_pool'.is_locked
          /\ last'.op = "trade" => (~last'.ok /\ pm_pool' = pm_pool)
      /\ (sys = "pp" /\ pp_pool.is_locked) =>
          /\ pp_pool'.is_locked
          /\ last'.op \in {"buy_tokens", "sell_tokens"} =>
               (~last'.ok /\ pp_pool' = pp_pool) ]_vars

\* a pool_manager pool that has traded was locked inside its window, and a
\* trade that every other guard admits has just been rejected
C1_Witness ==
  /\ sys = "pm" /\ pm_pool.is_locked /\ pm_pool.total_trades > 0
  /\ last = Call("trade", FALSE)
  /\ trade_accepts([pm_pool EXCEPT !.is_locked = FALSE], now, pm_pool.id, 1, TRUE,
                   12 * 3600, 5)

C4_Terminal ==
  [][ (sys = "pp" /\ (pp_pool.is_locked \/ last = Call("finalize_pool", TRUE))) =>
        /\ pp_pool'.is_locked = pp_pool.is_locked
        /\ pp_pool'.is_active => pp_pool.is_active
        /\ pp_pool'.reserve_coin = pp_pool.reserve_coin
        /\ pp_pool'.reserve_token = pp_pool.reserve_token
        /\ pp_pool'.trader_scores = pp_pool.trader_scores
        /\ pp_pool'.winner = pp_pool.winner ]_vars

(***************************************************************************)
(* Claims about the curve_launcher and pool_pair of part_011 / part_008    *)
(***************************************************************************)
\* C9: while now <= end_time of a pool, finalize_pool and complete_pool for
\* that pool's id are rejected (and so change nothing).
C9_FinalizeAfterEnd ==
  sys = "cl" =>
    \A p \in cl_pools :
      now <= p.end_time =>
        /\ ~cl_finalize_pool_accepts(cl_pools, p.id)
        /\ ~complete_pool_accepts(cl_launcher, cl_pools, p.id)

\* C10: right after a committed finalize_pool a second finalize_pool of the
\* same pool is rejected and leaves every pool as it is; right after a
\* committed complete_pool a second complete_pool of the same id is rejected
\* and leaves active_pools, completed_pools and current_height as they are.
C10_FinalizeOnce ==
  sys = "cl" =>
    /\ last = Call("finalize_pool", TRUE) =>
         LET pool_id == cl_pool_at(cl_pools, ADMIN).id
         IN  /\ ~cl_finalize_pool_accepts(cl_pools, pool_id)
             /\ cl_finalize_pool_post(cl_pools, pool_id) = cl_pools
    /\ last = Call("complete_pool", TRUE) =>
         LET pool_id == cl_launcher.completed_pools[Len(cl_launcher.completed_pools)]
         IN  /\ ~complete_pool_accepts(cl_launcher, cl_pools, pool_id)
             /\ complete_pool_post(cl_launcher, cl_pools, pool_id) = cl_launcher

\* C11: over every interleaving of the launcher's operations current_pool_id
\* never decreases; a committed create_new_pool or handle_random_params
\* raises it by exactly one and publishes a new pool with that id, which is
\* above the id of every pool that existed before; a rejected one leaves
\* current_pool_id and the pools as they were; no other operation changes
\* current_pool_id; and no two pools ever carry the same id.
C11_IdsNeverReused ==
  [][ sys = "cl" =>
        /\ cl_launcher'.current_pool_id >= cl_launcher.current_pool_id
        /\ \A p \in cl_pools' : \A q \in cl_pools' :
              p.id = q.id => p.creator = q.creator
        /\ IF last'.op \in {"create_new_pool", "handle_random_params"}
           THEN IF last'.ok
                THEN /\ cl_launcher'.current_pool_id = cl_launcher.current_pool_id + 1
                     /\ \E p \in cl_pools' :
                          /\ p.id = cl_launcher.current_pool_id + 1
                          /\ \A q \in cl_pools : q.id < p.id /\ q.creator # p.creator
                ELSE /\ cl_launcher'.current_pool_id = cl_launcher.current_pool_id
                     /\ cl_pools' = cl_pools
           ELSE cl_launcher'.current_pool_id = cl_launcher.current_pool_id ]_vars

\* a second pool has just been created, with id 2, after the first pool was
\* completed or burned
C11_Witness ==
  /\ sys = "cl" /\ last = Call("create_new_pool", TRUE)
  /\ cl_launcher.current_pool_id = 2
  /\ {p.id : p \in cl_pools} = {1, 2}
  /\ Len(cl_launcher.completed_pools) + Len(cl_launcher.burned_pools) > 0

\* C12: a pending randomness request whose scheduled start has come is
\* consumed by handle_random_params (the delivery commits, removing the
\* request and creating one pool), and a delivery for an account that holds
\* no pending request is rejected.
C12_ConsumedOnce ==
  sys = "cl" =>
    /\ \A v \in cl_pending :
         now >= v.scheduled_start =>
           handle_random_params_accepts(cl_launcher, cl_pools, cl_pending, now, v.caller)
    /\ \A caller_address \in Traders :
         (~\E v \in cl_pending : v.caller = caller_address) =>
           ~handle_random_params_accepts(cl_launcher, cl_pools, cl_pending, now,
                                         caller_address)

\* ticker durations outside {5, 10, 15}
C13_Tickers == {0, 1, 4, 6, 7, 14, 16, 20, 255}

\* C13: in every reachable state of the launcher, create_new_pool called by
\* any account with a ticker_duration outside {5, 10, 15} (7 among them) is
\* rejected and leaves LauncherData (current_pool_id, active_pools,
\* last_pool_start, current_height) and the set of pools as they were.
C13_BadTickerRejected ==
  sys = "cl" =>
    \A account \in Traders, ticker_duration \in C13_Tickers,
       threshold_percent \in {0, 10}, start_delay \in {0, 60} :
      /\ ~create_new_pool_accepts(cl_launcher, cl_pools, now, account, ticker_duration,
                                  start_delay)
      /\ create_new_pool_launcher(cl_launcher, cl_pools, now, account,
                                  ticker_duration, start_delay) = cl_launcher
      /\ create_new_pool_pools(cl_launcher, cl_pools, now, account, ticker_duration,
                               threshold_percent, start_delay) = cl_pools

\* a create_new_pool has just been rejected on a launcher that has created no
\* pool yet: no account holds a pool and no earlier start constrains the
\* timing, so the call is the one with ticker_duration = 7
C13_Witness ==
  /\ sys = "cl" /\ last = Call("create_new_pool", FALSE)
  /\ cl_pools = {} /\ cl_launcher = cl_launcher_init

\* C14: create_new_pool rejects, and leaves LauncherData and the pools as
\* they were, every call whose threshold_percent is 0 or above 50 (the
\* 5000 basis points of the allowed range) and every call whose start_delay
\* is above 24h; and no pool carries a threshold outside 1..50.
C14_ParamsValidated ==
  sys = "cl" =>
    /\ \A account \in Traders, ticker_duration \in {5, 10, 15},
          threshold_percent \in {0, 10, 50, 51, 255},
          start_delay \in {60, POOL_DURATION_SECONDS, POOL_DURATION_SECONDS + 1} :
         (threshold_percent = 0 \/ threshold_percent > 50
            \/ start_delay > POOL_DURATION_SECONDS) =>
           /\ ~create_new_pool_accepts(cl_launcher, cl_pools, now, account,
                                       ticker_duration, start_delay)
           /\ create_new_pool_launcher(cl_launcher, cl_pools, now, account,
                                       ticker_duration, start_delay) = cl_launcher
           /\ create_new_pool_pools(cl_launcher, cl_pools, now, account, ticker_duration,
                                    threshold_percent, start_delay) = cl_pools
    /\ \A p \in cl_pools :
         p.params.threshold_percent >= 1 /\ p.params.threshold_percent <= 50

\* start delays on both sides of the 36h that separate the latest start a
\* pool may have from the start of the pool before it
C15_Delays == {0, 60, 43200, 129600, 129660, 129661, 130000, 200000}

\* C15: once a pool exists, create_new_pool commits only if now + start_delay
\* <= start_time of the latest pool + 24h + 12h; a call with a later proposed
\* start is rejected and leaves LauncherData and the pools as they were; and
\* a committed call publishes a pool whose start_time is now + start_delay
\* (also recorded as last_pool_start).
C15_GraceWindow ==
  (sys = "cl" /\ cl_launcher.current_pool_id > 0) =>
    LET previous == CHOOSE p \in cl_pools : p.id = cl_launcher.current_pool_id
        max_allowed_start == previous.start_time + 24 * 3600 + 12 * 3600
    IN  \A account \in Traders, ticker_duration \in {5, 10, 15},
           start_delay \in C15_Delays :
          LET ok == create_new_pool_accepts(cl_launcher, cl_pools, now, account,
                                            ticker_duration, start_delay)
              launcher == create_new_pool_launcher(cl_launcher, cl_pools, now, account,
                                                   ticker_duration, start_delay)
              pools == create_new_pool_pools(cl_launcher, cl_pools, now, account,
                                             ticker_duration, 10, start_delay)
          IN  /\ ok => now + start_delay <= max_allowed_start
              /\ now + start_delay > max_allowed_start =>
                   ~ok /\ launcher = cl_launcher /\ pools = cl_pools
              /\ ok => /\ launcher.last_pool_start = now + start_delay
                       /\ \E p \in pools \ cl_pools :
                            /\ p.id = cl_launcher.current_pool_id + 1
                            /\ p.start_time = now + start_delay

\* a second pool has just been created after the first one ended: its start
\* is the proposed one (60 s from now), inside the window, while a start
\* 130000 s from now would be outside it
C15_Witness ==
  /\ sys = "cl" /\ last = Call("create_new_pool", TRUE)
  /\ cl_launcher.current_pool_id = 2
  /\ \E p \in cl_pools, q \in cl_pools :
       /\ p.id = 1 /\ q.id = 2 /\ now > p.end_time
       /\ q.start_time = now + 60
       /\ q.start_time <= p.start_time + 24 * 3600 + 12 * 3600
       /\ now + 130000 > p.start_time + 24 * 3600 + 12 * 3600

\* C16: a lock of a pool that is already locked is rejected and changes
\* nothing: pool_manager.lock_pool aborts for every signer and pool id while
\* the pool is locked, and curve_launcher.external_lock_pool aborts for the
\* id of every locked pool.
C16_DoubleLockRejected ==
  /\ (sys = "pm" /\ pm_pool.is_locked) =>
       \A admin \in Traders, pool_id \in PoolIds : ~lock_pool_accepts(admin, pool_id)
  /\ sys = "cl" =>
       \A p \in cl_pools : p.is_locked =>
         \A account \in Traders :
           ~external_lock_pool_accepts(cl_launcher, cl_pools, cl_pending, account, p.id)

\* C17: in every reachable state a locked pool has zero reserves, whichever
\* path locked it: a pool_manager pool (lock_pool), a pool_pair pool locked
\* by a trade, a pool locked by lock_and_burn_pool.
C17_LockedEmpty ==
  /\ (sys = "pm" /\ pm_pool.is_locked) =>
       pm_pool.x_reserve = 0 /\ pm_pool.y_reserve = 0
  /\ (sys = "pp" /\ pp_pool.is_locked) =>
       pp_pool.reserve_coin = 0 /\ pp_pool.reserve_token = 0
  /\ sys = "cl" =>
       \A p \in cl_pools : p.is_locked => p.reserve_coin = 0 /\ p.reserve_token = 0

(***************************************************************************)
(* Claims about math_utils                                                 *)
(***************************************************************************)
\* C18: calculate_amm_out returns 0, and does not abort, whenever x_in,
\* x_reserve or y_reserve is 0; calculate_curve_y returns 0, and does not
\* abort, whenever l = 0 or x > l.
C18_ZeroBoundary ==
  sys = "math" =>
    /\ ( /\ math_call.fn = "calculate_amm_out"
         /\ (math_call.a = 0 \/ math_call.b = 0 \/ math_call.c = 0) )
       => ~math_call.aborted /\ math_call.result = 0
    /\ ( /\ math_call.fn = "calculate_curve_y"
         /\ (math_call.c = 0 \/ math_call.a > math_call.c) )
       => ~math_call.aborted /\ math_call.result = 0

\* calculate_amm_out was applied to a positive input and a positive
\* y_reserve with x_reserve = 0, and returned 0
C18_Witness ==
  /\ sys = "math" /\ math_call.fn = "calculate_amm_out"
  /\ math_call.a > 0 /\ math_call.b = 0 /\ math_call.c > 0
  /\ ~math_call.aborted /\ math_call.result = 0

\* C19: for all a, b in the word range none of the four functions aborts,
\* safe_add(a, b) = min(a + b, MAX), safe_sub(a, b) = max(a - b, 0),
\* safe_mul(a, b) = min(a * b, MAX), safe_div(a, b) = floor(a / b) for b > 0
\* and 0 for b = 0.  (The sum is written a + min(b, MAX - a); the product is
\* compared through ceil(MAX / b), and r = a * b as b divides r with
\* quotient a; the quotient r as r * b <= a < r * b + b: none of these
\* leaves the word.)
C19_Saturating ==
  sys = "math" =>
    LET a == math_call.a
        b == math_call.b
        r == math_call.result
    IN  /\ math_call.fn \in {"safe_add", "safe_sub", "safe_mul", "safe_div"}
             => ~math_call.aborted /\ r >= 0 /\ r <= MAX_U128
        /\ math_call.fn = "safe_add" => r = a + Min(b, MAX_U128 - a)
        /\ math_call.fn = "safe_sub" => r = Max(a - b, 0)
        /\ math_call.fn = "safe_mul" =>
             IF a = 0 \/ b = 0 THEN r = 0
             ELSE IF a >= (MAX_U128 - 1) \div b + 1 THEN r = MAX_U128
             ELSE r < MAX_U128 /\ r % b = 0 /\ r \div b = a
        /\ math_call.fn = "safe_div" =>
             IF b = 0 THEN r = 0 ELSE r * b <= a /\ a - r * b < b

\* safe_sub was applied to a < b and returned 0
C19_Witness ==
  /\ sys = "math" /\ math_call.fn = "safe_sub"
  /\ math_call.a > 0 /\ math_call.a < math_call.b
  /\ math_call.result = 0

\* C20: for every pair of inputs in the word range safe_mul_fixed_point,
\* safe_div_precision and safe_div_fixed_point return a value: no product
\* they compute, their fallback branches included, leaves the word.
C20_NoOverflow ==
  ( /\ sys = "math"
    /\ math_call.fn \in {"safe_mul_fixed_point", "safe_div_precision",
                          "safe_div_fixed_point"} )
  => ~math_call.aborted

\* C21: sqrt(x) returns a value for every x of the word range, the value is
\* floor(sqrt(x)) (r * r <= x < (r + 1) * (r + 1)), and it is 9, 12 and 16
\* for the lengths 96, 144 and 288.
C21_SqrtFloor ==
  (sys = "math" /\ math_call.fn = "sqrt") =>
    LET x == math_call.a
        r == math_call.result
    IN  /\ ~math_call.aborted
        /\ r * r <= x /\ x - r * r <= 2 * r
        /\ x = 96 => r = 9
        /\ x = 144 => r = 12
        /\ x = 288 => r = 16

(***************************************************************************)
(* Claims about pool creation and the treasury                             *)
(***************************************************************************)
\* C22: a create_pool made while the treasury balance is below the seed
\* amount fails, and leaves the registry (current_pool_id, pools,
\* previous_h_values), the treasury and the admin's account as they were.
C22_UnfundedCreateRejected ==
  [][ (sys = "pmc" /\ last'.op = "create_pool" /\ pm_treasury.balance < INITIAL_X) =>
        /\ ~last'.ok
        /\ pm_registry' = pm_registry
        /\ pm_treasury' = pm_treasury
        /\ pm_pool' = pm_pool ]_vars

\* a create_pool was rejected on a treasury that was funded, but below the seed
C22_Witness ==
  /\ sys = "pmc"
  /\ last = Call("create_pool", FALSE)
  /\ pm_treasury.balance > 0 /\ pm_treasury.balance < INITIAL_X
  /\ pm_registry.current_pool_id = 0 /\ pm_registry.previous_h_values = << >>

\* C28: on a registry that has created pool i-1 >= 1, the height create_pool
\* computes for the next pool is sqrt(height of pool i-1) * sqrt(l_value) in
\* fixed point, the height of pool i-1 being the last entry of the history
\* and the height stored in that pool.
C28_HeightChaining ==
  (sys = "pm" /\ pm_registry.current_pool_id >= 1) =>
    /\ pm_registry.previous_h_values[Len(pm_registry.previous_h_values)] = pm_pool.h_value
    /\ \A l_value \in {96, 144, 288} :
         create_pool_h_value(pm_registry, l_value) =
           safe_mul_fixed_point(to_fixed_point(sqrt(from_fixed_point(pm_pool.h_value))),
                                to_fixed_point(sqrt(l_value)))

(***************************************************************************)
(* Claims about pool_pair's candle checks and finalization                 *)
(***************************************************************************)
\* C23: last_deviation_check never decreases; after a committed buy_tokens or
\* sell_tokens it is the candle index of that trade; and a trade whose
\* candle index is <= last_deviation_check leaves the pool unlocked
\* whatever its deviation.
C23_CheckedOncePerCandle ==
  [][ sys = "pp" =>
        /\ pp_pool'.last_deviation_check >= pp_pool.last_deviation_check
        /\ (last'.op \in {"buy_tokens", "sell_tokens"} /\ last'.ok) =>
             /\ pp_pool'.last_deviation_check = get_current_candle(pp_pool, now)
             /\ get_current_candle(pp_pool, now) <= pp_pool.last_deviation_check
                  => ~pp_pool'.is_locked ]_vars

\* two trades were committed, the later ones in a candle >= 1, with
\* deviations that sum to more than twice the threshold, and the pool is
\* not locked: a trade above the threshold went unchecked
C23_Witness ==
  /\ sys = "pp"
  /\ last.op \in {"buy_tokens", "sell_tokens"} /\ last.ok
  /\ ~pp_pool.is_locked
  /\ pp_pool.last_deviation_check >= 1
  /\ Len(pp_pool.trader_scores) = 1
  /\ pp_pool.trader_scores[1].trade_count = 2
  /\ pp_pool.trader_scores[1].total_deviation > 2 * PpThreshold

(***************************************************************************)
(* Claims about the proposals and the candle of pool_manager::trade        *)
(***************************************************************************)
\* the trades `trader` has made in the pool
pm_trade_count(pool, trader) ==
  LET i == find_trader(pool.trader_deviations, trader, 1)
  IN  IF i = 0 THEN 0 ELSE pool.trader_deviations[i].trade_count

\* C24: a committed trade made by a trader while another trader is
\* current_winner after that trade leaves winner_proposed_delay and
\* winner_proposed_candle_size as they were.
C24_WinnerProposalKept ==
  [][ (sys = "pm" /\ last'.op = "trade" /\ last'.ok) =>
        \A trader \in Traders :
          ( /\ pm_trade_count(pm_pool', trader) = pm_trade_count(pm_pool, trader) + 1
            /\ pm_pool'.current_winner \in Traders \ {trader} ) =>
              /\ pm_pool'.winner_proposed_delay = pm_pool.winner_proposed_delay
              /\ pm_pool'.winner_proposed_candle_size = pm_pool.winner_proposed_candle_size ]_vars

\* C30: the candle index of every committed trade, computed from the time
\* elapsed at the trade, is at most l_value - 1.
C30_CandleWithinLength ==
  (sys = "pm" /\ last.op = "trade" /\ last.ok) =>
    trade_current_candle(pm_pool, now) <= pm_pool.l_value - 1

\* C25: after finalize_pool on an unlocked pool with at least one trader the
\* winner is a trader of the lowest score in trader_scores; after
\* finalize_pool on a locked pool there is no winner.
C25_FinalizeSelectsLowest ==
  (sys = "pp" /\ last = Call("finalize_pool", TRUE)) =>
    IF pp_pool.is_locked THEN pp_pool.winner = ZERO_ADDR
    ELSE Len(pp_pool.trader_scores) > 0 =>
           \E i \in 1..Len(pp_pool.trader_scores) :
             /\ pp_pool.winner = pp_pool.trader_scores[i].trader
             /\ \A j \in 1..Len(pp_pool.trader_scores) :
                  pp_pool.trader_scores[i].score <= pp_pool.trader_scores[j].score

C27_CreationDeferred ==
  [][ (sys = "cl" /\ cl_pending # {} /\ last'.op # "handle_random_params") =>
        /\ cl_launcher'.current_pool_id = cl_launcher.current_pool_id
        /\ Len(cl_launcher'.active_pools) <= Len(cl_launcher.active_pools) ]_vars

(***************************************************************************)
(* Claims about the curve                                                  *)
(***************************************************************************)
\* the products 4 * h, 4 * h * x, 4 * h * x * (l - x), that times PRECISION,
\* and l * l all stay in the word
CurveProductsFit(x, h, l) ==
  /\ h <= MAX_U128 \div 4
  /\ x = 0 \/ 4 * h <= MAX_U128 \div x
  /\ l - x = 0 \/ 4 * h * x <= MAX_U128 \div (l - x)
  /\ 4 * h * x * (l - x) <= MAX_U128 \div PRECISION
  /\ l = 0 \/ l <= MAX_U128 \div l

\* C29: calculate_curve_y(x, h, l) returns 0 at x = 0 and at x = l; for
\* 0 < x <= l whose products stay in the word it returns
\* floor(4 * h * x * (l - x) * PRECISION / (l * l)); and for 0 < x < l it
\* returns the same value at x and at l - x.
C29_CurveFormula ==
  (sys = "math" /\ math_call.fn = "calculate_curve_y") =>
    LET x == math_call.a
        h == math_call.b
        l == math_call.c
    IN  /\ (x = 0 \/ x = l) => (~math_call.aborted /\ math_call.result = 0)
        /\ (0 < x /\ x <= l /\ CurveProductsFit(x, h, l)) =>
             /\ ~math_call.aborted
             /\ math_call.result = (4 * h * x * (l - x) * PRECISION) \div (l * l)
        /\ (0 < x /\ x < l /\ CurveProductsFit(x, h, l) /\ CurveProductsFit(l - x, h, l)) =>
             math_call.result = calculate_curve_y(l - x, h, l)

\* calculate_curve_y returned a value with a fractional part, strictly
\* between the ends of the curve
C29_Witness ==
  /\ sys = "math" /\ math_call.fn = "calculate_curve_y" /\ ~math_call.aborted
  /\ 0 < math_call.a /\ math_call.a < math_call.c
  /\ CurveProductsFit(math_call.a, math_call.b, math_call.c)
  /\ math_call.result > 0 /\ math_call.result % PRECISION # 0

(***************************************************************************)
(* Claims about the first candle and the trader scores of pool_pair        *)
(***************************************************************************)
\* C40: a pool whose first committed trade is made during candle 0 with a
\* deviation above threshold_percent is locked by that trade.
C40_FirstCandleChecked ==
  ( /\ sys = "pp"
    /\ last.op \in {"buy_tokens", "sell_tokens"} /\ last.ok
    /\ get_current_candle(pp_pool, now) = 0
    /\ Len(pp_pool.trader_scores) = 1
    /\ pp_pool.trader_scores[1].trade_count = 1
    /\ pp_pool.trader_scores[1].total_deviation > pp_pool.params.threshold_percent )
  => pp_pool.is_locked

\* the total_deviation recorded for `trader`, 0 when the trader has no entry
pp_total_deviation(scores, trader) ==
  LET i == find_trader(scores, trader, 1)
  IN  IF i = 0 THEN 0 ELSE scores[i].total_deviation

\* C34: after every step each trader has at most one entry of trader_scores,
\* every entry has trade_count >= 1 and score = floor(total_deviation /
\* trade_count), and a committed trade adds its deviation to the trader's
\* total_deviation and 1 to the trader's trade_count.
C34_RunningMean ==
  [][ sys = "pp" =>
        LET scores == pp_pool'.trader_scores
        IN  /\ \A i, j \in 1..Len(scores) : scores[i].trader = scores[j].trader => i = j
            /\ \A i \in 1..Len(scores) :
                 /\ scores[i].trade_count >= 1
                 /\ scores[i].score = scores[i].total_deviation \div scores[i].trade_count
            /\ (last'.op \in {"buy_tokens", "sell_tokens"} /\ last'.ok) =>
                 /\ pp_trade_count(scores, 1) = pp_trade_count(pp_pool.trader_scores, 1) + 1
                 /\ \E is_buy \in BOOLEAN, amount \in PpAmounts :
                      /\ pp_trade_accepts(pp_pool, pp_treasury, now, pp_pool.creator,
                                          pp_pool.id, is_buy, amount)
                      /\ pp_total_deviation(scores, pp_pool.creator) =
                           pp_total_deviation(pp_pool.trader_scores, pp_pool.creator)
                             + pp_deviation(pp_pool, now, is_buy, amount) ]_vars

\* a trader has made three trades whose deviations do not divide evenly
C34_Witness ==
  /\ sys = "pp"
  /\ Len(pp_pool.trader_scores) = 1
  /\ pp_pool.trader_scores[1].trade_count = 3
  /\ pp_pool.trader_scores[1].total_deviation % 3 # 0

(***************************************************************************)
(* Claims about the chaining of the launcher's pools                       *)
(***************************************************************************)
\* C31: every pool the launcher creates after its first starts at least 24h
\* after the start of the pool created before it.
C31_ChainedStarts ==
  [][ ( /\ sys = "cl"
        /\ cl_launcher'.current_pool_id > cl_launcher.current_pool_id
        /\ cl_launcher.current_pool_id >= 1 ) =>
        cl_launcher'.last_pool_start >=
          cl_launcher.last_pool_start + POOL_DURATION_SECONDS ]_vars

\* C39: last_pool_start never decreases.
C39_LastStartMonotone ==
  [][ sys = "cl" => cl_launcher'.last_pool_start >= cl_launcher.last_pool_start ]_vars

\* C36: while a request is pending for one locked pool, every account can
\* lock any other active pool, and no two pending requests are for the same
\* pool.
C36_RequestsKeyedByPool ==
  sys = "cl" =>
    /\ \A v, w \in cl_pending : v.pool_id = w.pool_id => v = w
    /\ cl_pending # {} =>
         \A account \in Traders, i \in 1..Len(cl_launcher.active_pools) :
           (\A v \in cl_pending : v.pool_id # cl_launcher.active_pools[i]) =>
             external_lock_pool_accepts(cl_launcher, cl_pools, cl_pending, account,
                                        cl_launcher.active_pools[i])

(***************************************************************************)
(* Claims about the automation loop                                        *)
(***************************************************************************)
\* C32: a pool that has passed its expiry unlocked and without any trade
\* leads to a next pool, whose candle size is one of 5, 10, 15 minutes
\* (l_value 288, 144 or 96).
C32_NoWinnerRelaunch ==
  (sys = "pm" /\ pm_pool.id = 1 /\ ~pm_pool.is_locked /\ pm_pool.total_trades = 0
     /\ now > pm_pool.end_time)
  ~> (pm_registry.current_pool_id >= 2 /\ pm_pool.id >= 2
        /\ pm_pool.l_value \in {288, 144, 96})

\* C33: with a funded treasury, a pool that has passed its expiry unlocked
\* with a winner leads to a next pool.
C33_LoopContinues ==
  (sys = "pm" /\ pm_pool.id = 1 /\ ~pm_pool.is_locked /\ pm_pool.current_winner \in Traders
     /\ now > pm_pool.end_time /\ pm_treasury.balance >= INITIAL_X)
  ~> (pm_registry.current_pool_id >= 2 /\ pm_pool.id >= 2)

(***************************************************************************)
(* Claims about the treasury's coins                                       *)
(***************************************************************************)
\* C37: the treasury's balance counter equals the value held in
\* reserve_coins, so initialize_pool_funding of the seed amount succeeds
\* whenever the balance covers it.
C37_BalanceBacked ==
  sys = "pmc" =>
    /\ pm_treasury.balance = pm_treasury.reserve_coins
    /\ pm_treasury.balance >= INITIAL_X =>
         initialize_pool_funding_accepts(pm_treasury, INITIAL_X)

(***************************************************************************)
(* Claims about the Solidity TittyPool                                     *)
(***************************************************************************)
\* C38: after every trade the stored poolInfo.currentWinner is the trader
\* getCurrentWinner() computes over all traders, and finalizeWinner reports
\* that trader.
C38_StoredWinnerIsBest ==
  sys = "evm" =>
    /\ evm_pool.poolInfo.currentWinner = getCurrentWinner(evm_pool)
    /\ (last.op = "finalizeWinner" /\ last.ok) =>
         evm_pool.finalized = getCurrentWinner(evm_pool)

====
